---------------------------- MODULE Spec2Model ----------------------------
(***************************************************************************)
(* A model of agent-tether: the timed auto-approve engine                  *)
(* (agent_tether/approval.py), the notification batcher, error debouncer   *)
(* and thread-name registry (batching.py, debounce.py, state.py), the      *)
(* bridge that routes permission/choice requests and inbound human         *)
(* messages (platforms/base.py) and the Telegram bridge built on it        *)
(* (platforms/telegram/bridge.py).                                         *)
(*                                                                         *)
(* SpecEngine is the engine alone with a running clock; SpecBridge is the  *)
(* dispatcher of BridgeBase with its coroutines; SpecTelegram is the       *)
(* Telegram bridge with button clicks, thread creation and removal.        *)
(* SpecResolve is the dispatcher with threads created with and without a   *)
(* directory and the approval replies; SpecCommands is the dispatcher with *)
(* command lines and a custom command; SpecBatcher is the notification     *)
(* batcher alone with a running clock and its flush timers.  SpecDebounce  *)
(* is the error debouncer with a running clock; SpecRegistry the thread-   *)
(* name registry with its file; SpecParse the two reply parsers as pure    *)
(* functions; SpecSequence the permission requests and replies together    *)
(* with the batcher and its clock; SpecFrame the dispatcher of SpecBridge  *)
(* with the clock running and replies that match nothing.  SpecThreads     *)
(* drives the bridge, the engine, the batcher and the debouncer together   *)
(* for two threads; SpecCheck is the engine with its queries; SpecFlush    *)
(* the batcher with a flush callback that suspends; SpecAllocate the name  *)
(* allocation over maximum lengths and names in use; SpecRename the        *)
(* registry with repeated registrations; SpecGrants the dispatcher with    *)
(* replies of every kind; SpecSubscriber the event subscriber with its     *)
(* queues and consumer tasks.                                              *)
(*                                                                         *)
(* Text (tool names, directory paths, labels, replies) is modelled as a    *)
(* sequence of one-character strings so that strip/lower/startswith/       *)
(* normpath/basename and the reply parsers are computed as the Python code *)
(* computes them.                                                          *)
(***************************************************************************)
EXTENDS Integers, Sequences, FiniteSets, TLC

VARIABLES
    now,        \* the wall clock read by time.time()
    approval,   \* AutoApproveEngine: the four dictionaries of approval.py:39-45
    issued,     \* history: scope -> clock value at which its grant was last written
    lastOp,     \* history: the operation that produced the current state
    ops,        \* history: the number of operations started so far
    handlers,   \* Handlers: which optional callbacks the consumer configured
    command_prefix, \* BridgeBase._command_prefix
    pending,    \* BridgeBase._pending: thread_id -> ApprovalRequest
    batcher,    \* NotificationBatcher: _buffer and _tasks
    debouncer,  \* ErrorDebouncer: _last_sent
    thread_state, \* ThreadState: _names, _used_names and the JSON file
    pending_deny_reason, \* TelegramBridge._pending_deny_reason: topic_id -> (thread_id, request_id)
    typing_tasks, \* TelegramBridge._typing_tasks: the threads with a typing loop
    requests,   \* history: the ids of the requests rendered, and of those overwritten while pending
    batch_log,  \* history: the flush callbacks of the batcher, and the adds not yet flushed
    sent_log,   \* history: per thread, the calls of should_send since the thread was last removed
    co,         \* the coroutines of the bridge's async methods, one per slot
    subscriber, \* EventSubscriber: _tasks (the consumer of each thread) and _queues
    event_log   \* history: the bridge calls the consumers made, in order

engineVars == <<now, approval, issued>>
\* the configuration, and the event subscriber, which no operation of the
\* bridge or of its components touches
configVars == <<handlers, command_prefix, subscriber, event_log>>
bridgeVars == <<pending, batcher, debouncer, thread_state, pending_deny_reason,
                typing_tasks, requests, batch_log, sent_log, co>>
vars == <<now, approval, issued, lastOp, ops, handlers, command_prefix, pending,
          batcher, debouncer, thread_state, pending_deny_reason, typing_tasks,
          requests, batch_log, sent_log, co, subscriber, event_log>>

-----------------------------------------------------------------------------
(* Bounds of the model *)

MaxOps == 3         \* state-changing operations performed in one behaviour
MaxCalls == 3       \* bridge methods called in one behaviour of SpecBridge
MaxTasks == 2       \* coroutines of the bridge that may be in flight together

(* Configuration: AutoApproveEngine(duration_s=...), in clock ticks *)
Duration == 2

MaxTime == Duration + 1     \* the clock runs 0 .. MaxTime

-----------------------------------------------------------------------------
(* Python values *)

None == <<"<None>">>

Threads == {"t1", "t2"}

(* dict helpers: a dict is a function whose DOMAIN is its key set *)
EmptyDict == <<>>

DictGet(d, k, default) == IF k \in DOMAIN d THEN d[k] ELSE default

DictSet(d, k, v) == [x \in (DOMAIN d) \cup {k} |-> IF x = k THEN v ELSE d[x]]

DictPop(d, k) == [x \in (DOMAIN d) \ {k} |-> d[x]]

-----------------------------------------------------------------------------
(* str helpers *)

IsSpace(c) == c \in {" ", "\t", "\n"}

Lower(c) ==
    CASE c = "A" -> "a" [] c = "B" -> "b" [] c = "C" -> "c" [] c = "D" -> "d"
      [] c = "E" -> "e" [] c = "F" -> "f" [] c = "G" -> "g" [] c = "H" -> "h"
      [] c = "I" -> "i" [] c = "J" -> "j" [] c = "K" -> "k" [] c = "L" -> "l"
      [] c = "M" -> "m" [] c = "N" -> "n" [] c = "O" -> "o" [] c = "P" -> "p"
      [] c = "Q" -> "q" [] c = "R" -> "r" [] c = "S" -> "s" [] c = "T" -> "t"
      [] c = "U" -> "u" [] c = "V" -> "v" [] c = "W" -> "w" [] c = "X" -> "x"
      [] c = "Y" -> "y" [] c = "Z" -> "z"
      [] OTHER -> c

LowerStr(s) == [i \in 1..Len(s) |-> Lower(s[i])]

RECURSIVE LStrip(_)
LStrip(s) == IF s # <<>> /\ IsSpace(Head(s)) THEN LStrip(Tail(s)) ELSE s

RECURSIVE RStrip(_)
RStrip(s) ==
    IF s # <<>> /\ IsSpace(s[Len(s)]) THEN RStrip(SubSeq(s, 1, Len(s) - 1)) ELSE s

Strip(s) == RStrip(LStrip(s))

StartsWith(s, p) == Len(p) <= Len(s) /\ SubSeq(s, 1, Len(p)) = p

-----------------------------------------------------------------------------
(* os.path (POSIX) *)

Sep == <<"/">>

\* str.split("/")
RECURSIVE SplitSep(_, _, _)
SplitSep(s, i, cur) ==
    IF i > Len(s) THEN <<cur>>
    ELSE IF s[i] = "/" THEN <<cur>> \o SplitSep(s, i + 1, <<>>)
    ELSE SplitSep(s, i + 1, Append(cur, s[i]))

\* "/".join(comps)
RECURSIVE JoinSep(_)
JoinSep(comps) ==
    IF comps = <<>> THEN <<>>
    ELSE IF Len(comps) = 1 THEN comps[1]
    ELSE comps[1] \o Sep \o JoinSep(Tail(comps))

\* the loop of posixpath.normpath over the components
RECURSIVE NormComps(_, _, _, _)
NormComps(comps, i, acc, initial_slashes) ==
    IF i > Len(comps) THEN acc
    ELSE LET comp == comps[i] IN
         IF comp = <<>> \/ comp = <<".">>
           THEN NormComps(comps, i + 1, acc, initial_slashes)
         ELSE IF \/ comp # <<".", ".">>
                 \/ (initial_slashes = 0 /\ acc = <<>>)
                 \/ (acc # <<>> /\ acc[Len(acc)] = <<".", ".">>)
           THEN NormComps(comps, i + 1, Append(acc, comp), initial_slashes)
         ELSE IF acc # <<>>
           THEN NormComps(comps, i + 1, SubSeq(acc, 1, Len(acc) - 1), initial_slashes)
         ELSE NormComps(comps, i + 1, acc, initial_slashes)

InitialSlashes(path) ==
    IF path = <<>> \/ path[1] # "/" THEN 0
    ELSE IF Len(path) >= 2 /\ path[2] = "/" /\ ~(Len(path) >= 3 /\ path[3] = "/")
      THEN 2
    ELSE 1

normpath(path) ==
    IF path = <<>> THEN <<".">>
    ELSE LET n == InitialSlashes(path)
             comps == NormComps(SplitSep(path, 1, <<>>), 1, <<>>, n)
             joined == [i \in 1..n |-> "/"] \o JoinSep(comps)
         IN  IF joined = <<>> THEN <<".">> ELSE joined

\* os.path.basename: the text after the last "/"
RECURSIVE basename(_)
basename(p) ==
    IF p = <<>> THEN <<>>
    ELSE IF p[Len(p)] = "/" THEN <<>>
    ELSE Append(basename(SubSeq(p, 1, Len(p) - 1)), p[Len(p)])

-----------------------------------------------------------------------------
(* Text constants *)

s_task == <<"t", "a", "s", "k">>
s_enterplanmode == <<"e", "n", "t", "e", "r", "p", "l", "a", "n", "m", "o", "d", "e">>
s_exitplanmode == <<"e", "x", "i", "t", "p", "l", "a", "n", "m", "o", "d", "e">>
s_Allow_All == <<"A", "l", "l", "o", "w", " ", "A", "l", "l">>
s_Allow_ == <<"A", "l", "l", "o", "w", " ">>
s_Allow_dir_ == <<"A", "l", "l", "o", "w", " ", "d", "i", "r", " ">>

\* _DEFAULT_NEVER_AUTO_APPROVE
DefaultNeverAutoApprove == {s_task, s_enterplanmode, s_exitplanmode}

-----------------------------------------------------------------------------
(* AutoApproveEngine.  The engine is the record                            *)
(*   [allow_all_until, allow_tool_until, allow_dir_until, thread_directory]*)
(* allow_dir_until is a sequence of [dir, expiry] in insertion order, the  *)
(* order in which _check_directory iterates the dict.                      *)

NewEngine ==
    [allow_all_until |-> EmptyDict,
     allow_tool_until |-> EmptyDict,
     allow_dir_until |-> <<>>,
     thread_directory |-> EmptyDict]

DirKeys(e) == {e.allow_dir_until[i].dir : i \in 1..Len(e.allow_dir_until)}

DirExpiry(e, d) ==
    LET i == CHOOSE j \in 1..Len(e.allow_dir_until) : e.allow_dir_until[j].dir = d
    IN  e.allow_dir_until[i].expiry

associate_directory(e, thread_id, directory) ==
    [e EXCEPT !.thread_directory = DictSet(@, thread_id, normpath(directory))]

\* mutant: the prefix test without lower()
is_never_approved_case_sensitive(tool_name) ==
    LET norm == Strip(tool_name)
    IN  \E prefix \in DefaultNeverAutoApprove : StartsWith(norm, prefix)

is_never_approved(tool_name) ==
    LET norm == LowerStr(Strip(tool_name))
    IN  \E prefix \in DefaultNeverAutoApprove : StartsWith(norm, prefix)

\* the for loop of _check_directory, from position i on
RECURSIVE CheckDirFrom(_, _, _, _)
CheckDirFrom(e, thread_dir, clock, i) ==
    IF i > Len(e.allow_dir_until) THEN None
    ELSE LET allowed_dir == e.allow_dir_until[i].dir
             expiry == e.allow_dir_until[i].expiry
         IN  IF clock >= expiry THEN CheckDirFrom(e, thread_dir, clock, i + 1)
             ELSE IF thread_dir = allowed_dir \/ StartsWith(thread_dir, allowed_dir \o Sep)
               THEN LET base == basename(allowed_dir)
                        short == IF base # <<>> THEN base ELSE allowed_dir
                    IN  s_Allow_dir_ \o short
             ELSE CheckDirFrom(e, thread_dir, clock, i + 1)

check_directory(e, thread_id, clock) ==
    IF e.allow_dir_until = <<>> THEN None
    ELSE LET thread_dir == DictGet(e.thread_directory, thread_id, None)
         IN  IF thread_dir = None \/ thread_dir = <<>> THEN None
             ELSE CheckDirFrom(e, thread_dir, clock, 1)

\* mutant: the per-tool grant is looked up under the normalised tool name
check_tool_by_norm(e, thread_id, tool_name, clock) ==
    LET norm == LowerStr(Strip(tool_name)) IN
    IF is_never_approved(tool_name) THEN None
    ELSE IF clock < DictGet(e.allow_all_until, thread_id, 0) THEN s_Allow_All
    ELSE IF clock < DictGet(DictGet(e.allow_tool_until, thread_id, EmptyDict), norm, 0)
      THEN s_Allow_ \o tool_name
    ELSE check_directory(e, thread_id, clock)

\* mutant: the per-tool grant is tested before the allow-all grant
check_tool_first(e, thread_id, tool_name, clock) ==
    IF is_never_approved(tool_name) THEN None
    ELSE IF clock < DictGet(DictGet(e.allow_tool_until, thread_id, EmptyDict), tool_name, 0)
      THEN s_Allow_ \o tool_name
    ELSE IF clock < DictGet(e.allow_all_until, thread_id, 0) THEN s_Allow_All
    ELSE check_directory(e, thread_id, clock)

check(e, thread_id, tool_name, clock) ==
    IF is_never_approved(tool_name) THEN None
    ELSE IF clock < DictGet(e.allow_all_until, thread_id, 0) THEN s_Allow_All
    ELSE IF clock < DictGet(DictGet(e.allow_tool_until, thread_id, EmptyDict), tool_name, 0)
      THEN s_Allow_ \o tool_name
    ELSE check_directory(e, thread_id, clock)

\* mutant: the expiry is one tick late
set_allow_all_late(e, thread_id, clock) ==
    [e EXCEPT !.allow_all_until = DictSet(@, thread_id, clock + Duration + 1)]

set_allow_all(e, thread_id, clock) ==
    [e EXCEPT !.allow_all_until = DictSet(@, thread_id, clock + Duration)]

set_allow_tool(e, thread_id, tool_name, clock) ==
    [e EXCEPT !.allow_tool_until =
        DictSet(@, thread_id,
                DictSet(DictGet(@, thread_id, EmptyDict), tool_name, clock + Duration))]

set_allow_directory(e, directory, clock) ==
    LET norm == normpath(directory)
        new == [dir |-> norm, expiry |-> clock + Duration]
    IN  [e EXCEPT !.allow_dir_until =
            IF norm \in DirKeys(e)
              THEN [i \in 1..Len(@) |-> IF @[i].dir = norm THEN new ELSE @[i]]
              ELSE Append(@, new)]

get_directory(e, thread_id) == DictGet(e.thread_directory, thread_id, None)

\* mutant: the directory association is left behind
engine_remove_thread_keeps_directory(e, thread_id) ==
    [e EXCEPT !.allow_all_until = DictPop(@, thread_id),
              !.allow_tool_until = DictPop(@, thread_id)]

engine_remove_thread(e, thread_id) ==
    [e EXCEPT !.allow_all_until = DictPop(@, thread_id),
              !.allow_tool_until = DictPop(@, thread_id),
              !.thread_directory = DictPop(@, thread_id)]

-----------------------------------------------------------------------------
(* NotificationBatcher.  tasks maps a thread to the deadline of its pending *)
(* flush timer (the task sleeping in _flush_after_delay).                  *)

\* configuration: flush_delay, in clock ticks
FlushDelay == 2

NewBatcher == [buffer |-> EmptyDict, tasks |-> EmptyDict]

\* add that leaves a running timer alone instead of restarting it
batcher_add_keeps_timer(b, thread_id, tool_name, reason, clock) ==
    [buffer |-> DictSet(b.buffer, thread_id,
                        Append(DictGet(b.buffer, thread_id, <<>>), <<tool_name, reason>>)),
     tasks |-> IF thread_id \in DOMAIN b.tasks THEN b.tasks
               ELSE DictSet(b.tasks, thread_id, clock + FlushDelay)]

\* NotificationBatcher.add; a timer is the time at which its sleep ends
batcher_add(b, thread_id, tool_name, reason, clock) ==
    [buffer |-> DictSet(b.buffer, thread_id,
                        Append(DictGet(b.buffer, thread_id, <<>>), <<tool_name, reason>>)),
     tasks |-> DictSet(DictPop(b.tasks, thread_id), thread_id, clock + FlushDelay)]

\* remove_thread that cancels the timer and keeps the buffer
batcher_remove_thread_keeps_buffer(b, thread_id) ==
    [buffer |-> b.buffer, tasks |-> DictPop(b.tasks, thread_id)]

\* NotificationBatcher.remove_thread
batcher_remove_thread(b, thread_id) ==
    [buffer |-> DictPop(b.buffer, thread_id), tasks |-> DictPop(b.tasks, thread_id)]

\* a flush that hands over all items but the last
flush_after_delay_drops_last(b, thread_id) ==
    [batcher |-> [buffer |-> DictPop(b.buffer, thread_id),
                  tasks |-> DictPop(b.tasks, thread_id)],
     items |-> LET items == DictGet(b.buffer, thread_id, <<>>)
               IN  SubSeq(items, 1, Len(items) - 1)]

\* a flush that leaves its own task in _tasks
flush_after_delay_keeps_timer(b, thread_id) ==
    [batcher |-> [buffer |-> DictPop(b.buffer, thread_id), tasks |-> b.tasks],
     items |-> DictGet(b.buffer, thread_id, <<>>)]

\* a flush that hands the items over and leaves them in the buffer
flush_after_delay_keeps_buffer(b, thread_id) ==
    [batcher |-> [buffer |-> b.buffer, tasks |-> DictPop(b.tasks, thread_id)],
     items |-> DictGet(b.buffer, thread_id, <<>>)]

\* _flush_after_delay once the sleep has ended: the batcher it leaves, and the
\* items it hands to the flush callback (none: no callback)
flush_after_delay(b, thread_id) ==
    [batcher |-> [buffer |-> DictPop(b.buffer, thread_id),
                  tasks |-> DictPop(b.tasks, thread_id)],
     items |-> DictGet(b.buffer, thread_id, <<>>)]

\* history of the batcher: flushes, the calls of the flush callback in order;
\* adds, per thread the items added and not yet flushed or discarded; dropped,
\* the items that remove_thread discarded
NoBatchLog == [flushes |-> <<>>, adds |-> EmptyDict, dropped |-> <<>>]

LogAdd(log, t, item, clock) ==
    [log EXCEPT !.adds = DictSet(log.adds, t,
                                 Append(DictGet(log.adds, t, <<>>),
                                        [item |-> item, at |-> clock]))]

LogRemove(log, t) ==
    [log EXCEPT !.adds = DictPop(log.adds, t),
                !.dropped = IF t \in DOMAIN log.adds
                              THEN Append(log.dropped, [thread |-> t, adds |-> log.adds[t]])
                              ELSE log.dropped]

LogFlush(log, t, items, clock) ==
    [log EXCEPT !.flushes = Append(log.flushes, [thread |-> t, items |-> items, at |-> clock]),
                !.adds = DictPop(log.adds, t)]

-----------------------------------------------------------------------------
(* ErrorDebouncer *)

\* configuration: error_debounce_seconds, in clock ticks
DebounceS == 1

\* ErrorDebouncer(debounce_seconds=s)
Debouncer(s) == [debounce_s |-> s, last_sent |-> EmptyDict]

NewDebouncer == Debouncer(DebounceS)

\* should_send that also holds back a call exactly one interval after the last
should_send_inclusive(d, thread_id, clock) ==
    IF d.debounce_s <= 0 THEN TRUE
    ELSE ~(thread_id \in DOMAIN d.last_sent /\ (clock - d.last_sent[thread_id]) <= d.debounce_s)

\* ErrorDebouncer.should_send: the value it returns
should_send(d, thread_id, clock) ==
    IF d.debounce_s <= 0 THEN TRUE
    ELSE ~(thread_id \in DOMAIN d.last_sent /\ (clock - d.last_sent[thread_id]) < d.debounce_s)

\* history of should_send: one more call for thread t, with its result
LogShouldSend(log, t, result, clock) ==
    DictSet(log, t, Append(DictGet(log, t, <<>>), [at |-> clock, result |-> result]))

\* the debouncer after should_send returned
after_should_send(d, thread_id, clock) ==
    IF d.debounce_s <= 0 THEN d
    ELSE IF should_send(d, thread_id, clock)
      THEN [d EXCEPT !.last_sent = DictSet(@, thread_id, clock)]
    ELSE d

\* remove_thread that forgets the last-sent time of every thread
debouncer_remove_thread_all(d, thread_id) == [d EXCEPT !.last_sent = EmptyDict]

debouncer_remove_thread(d, thread_id) == [d EXCEPT !.last_sent = DictPop(@, thread_id)]

-----------------------------------------------------------------------------
(* EventSubscriber.  tasks maps a thread id to its consumer task: st is     *)
(* "get" while the task waits in queue.get() and "dispatch" while it is     *)
(* suspended in a call of the bridge; queues maps it to the events queued.  *)

NewSubscriber == [tasks |-> EmptyDict, queues |-> EmptyDict]

-----------------------------------------------------------------------------
(* ThreadState.  file is the JSON document last written by save(). *)

\* configuration: max_name_len
MaxNameLen == 6

\* ThreadState(path, max_name_len = MaxNameLen)
NewThreadState ==
    [names |-> EmptyDict, used_names |-> {}, file |-> EmptyDict, max_len |-> MaxNameLen]

save(ts) == [ts EXCEPT !.file = ts.names]

register(ts, thread_id, name) ==
    save([ts EXCEPT !.names = DictSet(@, thread_id, name),
                    !.used_names = @ \cup {name}])

unregister(ts, thread_id) ==
    LET name == DictGet(ts.names, thread_id, None)
        popped == [ts EXCEPT !.names = DictPop(@, thread_id)]
    IN  IF name # None /\ name # <<>>
          THEN save([popped EXCEPT !.used_names = @ \ {name}])
          ELSE popped

w_Thread == <<"T", "h", "r", "e", "a", "d">>

\* s[:n]
Prefix(s, n) == SubSeq(s, 1, IF n < Len(s) THEN n ELSE Len(s))

\* str(i) for 0 <= i < 100
DigitChar(d) == <<"0", "1", "2", "3", "4", "5", "6", "7", "8", "9">>[d + 1]
StrOf(i) == IF i < 10 THEN <<DigitChar(i)>> ELSE <<DigitChar(i \div 10), DigitChar(i % 10)>>

\* allocate_name: the candidate with suffix " i"
Candidate(base, i, max_len) ==
    LET suffix == <<" ">> \o StrOf(i)
        avail == IF max_len - Len(suffix) > 1 THEN max_len - Len(suffix) ELSE 1
    IN  Prefix(Prefix(base, avail) \o suffix, max_len)

\* ThreadState.allocate_name: the name it returns
allocate_name(ts, base_name) ==
    LET given == IF base_name = None \/ base_name = <<>> THEN w_Thread ELSE base_name
        stripped == IF Strip(given) = <<>> THEN w_Thread ELSE Strip(given)
        base == Prefix(stripped, ts.max_len)
        free == {i \in 2..99 : Candidate(base, i, ts.max_len) \notin ts.used_names}
    IN  IF base \notin ts.used_names THEN base
        ELSE IF free = {} THEN base
        ELSE Candidate(base, CHOOSE i \in free : \A j \in free : i <= j, ts.max_len)

\* ThreadState.load: the entries of the document with a non-empty name, the
\* names stripped, are added to the registry (the thread ids of the model hold
\* no whitespace)
load(ts) ==
    LET kept == {k \in DOMAIN ts.file : Strip(ts.file[k]) # <<>>}
    IN  [ts EXCEPT !.names = [k \in DOMAIN ts.names \cup kept |->
                                IF k \in kept THEN Strip(ts.file[k]) ELSE ts.names[k]],
                   !.used_names = @ \cup {Strip(ts.file[k]) : k \in kept}]

\* ThreadState(path) followed by load(): the registry of a restarted process
reloaded(ts) == load([NewThreadState EXCEPT !.file = ts.file, !.max_len = ts.max_len])

-----------------------------------------------------------------------------
(* Coroutines.  Each call of an async method of the bridge runs in a slot.  *)
(* It runs atomically up to an await that suspends: st = "cb" while it is   *)
(* suspended in a callback of the consumer, st = "send" while suspended in  *)
(* the transport.  calls and sent list what it has called and sent so far,  *)
(* next names the code that follows the await.  A finished coroutine stays  *)
(* in its slot (st = "done", or "raised" when an exception left it) until   *)
(* the slot is taken again.                                                *)

Slots == 1..MaxTasks

\* ApprovalRequest of models.py; kind = "none" stands for no request
NoRequest == [kind |-> "none", request_id |-> 0, title |-> <<>>, options |-> <<>>]

ApprovalRequest(kind, request_id, title, options) ==
    [kind |-> kind, request_id |-> request_id, title |-> title, options |-> options]

NoThread == "-"

NoRequests == [rendered |-> {}, replaced |-> {}]

IdleTask ==
    [st |-> "idle", kind |-> "-", thread |-> NoThread, text |-> <<>>, arg |-> <<>>,
     pend |-> NoRequest, route |-> "-", calls |-> <<>>, sent |-> <<>>, next |-> "-"]

\* a coroutine that has just been called
NewTask(kind, thread, text, arg, pend, route) ==
    [st |-> "done", kind |-> kind, thread |-> thread, text |-> text, arg |-> arg,
     pend |-> pend, route |-> route, calls |-> <<>>, sent |-> <<>>, next |-> "-"]

\* await of a consumer callback: the call is made, the coroutine suspends
Call(task, c, next) == [task EXCEPT !.st = "cb", !.calls = Append(@, c), !.next = next]

\* await of a transport operation
Send(task, m, next) == [task EXCEPT !.st = "send", !.sent = Append(@, m), !.next = next]

Done(task) == [task EXCEPT !.st = "done", !.next = "-"]

Raised(task) == [task EXCEPT !.st = "raised", !.next = "-"]

Running(task) == task.st \in {"cb", "send"}

\* one call of a callback of Handlers, with its positional arguments
ApprovalCall(thread_id, request_id, approved, reason, timer) ==
    [cb |-> "on_approval_response", thread |-> thread_id, request_id |-> request_id,
     approved |-> approved, reason |-> reason, timer |-> timer, text |-> <<>>,
     args |-> <<>>]

InputCall(thread_id, text) ==
    [cb |-> "on_input", thread |-> thread_id, request_id |-> 0, approved |-> FALSE,
     reason |-> None, timer |-> None, text |-> text, args |-> <<>>]

CommandCall(cb, thread_id, command, args) ==
    [cb |-> cb, thread |-> thread_id, request_id |-> 0, approved |-> FALSE,
     reason |-> None, timer |-> None, text |-> command, args |-> args]

\* a message handed to the transport: what it is and the text it carries
Msg(tag, body) == [tag |-> tag, body |-> body]

\* Handlers(): each callback is configured (TRUE) or None (FALSE)
HandlersWith(b) ==
    [on_input |-> b, on_approval_response |-> b, on_command |-> b,
     on_status_request |-> b, on_stop_request |-> b, on_usage_request |-> b]

-----------------------------------------------------------------------------
(* Words of the reply grammar *)

w_proceed == <<"p", "r", "o", "c", "e", "e", "d">>
w_continue == <<"c", "o", "n", "t", "i", "n", "u", "e">>
w_start == <<"s", "t", "a", "r", "t">>
w_go == <<"g", "o">>
w_ok == <<"o", "k">>
w_okay == <<"o", "k", "a", "y">>
w_cancel == <<"c", "a", "n", "c", "e", "l">>
w_stop == <<"s", "t", "o", "p">>
w_abort == <<"a", "b", "o", "r", "t">>
w_allow_all == <<"a", "l", "l", "o", "w", " ", "a", "l", "l">>
w_allow_dir == <<"a", "l", "l", "o", "w", " ", "d", "i", "r">>
w_allow == <<"a", "l", "l", "o", "w">>
w_approve == <<"a", "p", "p", "r", "o", "v", "e">>
w_yes == <<"y", "e", "s">>
w_deny == <<"d", "e", "n", "y">>
w_reject == <<"r", "e", "j", "e", "c", "t">>
w_no == <<"n", "o">>
w_all == <<"a", "l", "l">>
w_dir == <<"d", "i", "r">>
w_help == <<"h", "e", "l", "p">>
w_status == <<"s", "t", "a", "t", "u", "s">>
w_usage == <<"u", "s", "a", "g", "e">>

\* text[i:] and text[:i] with 0-based i, as Python slices
From(s, i) == SubSeq(s, i + 1, Len(s))

\* str.index(c): 0-based position of the first c (the caller guarantees one)
RECURSIVE IndexOf(_, _)
IndexOf(s, c) == IF s = <<>> \/ Head(s) = c THEN 0 ELSE 1 + IndexOf(Tail(s), c)

Parsed(allow, reason, timer) ==
    [matched |-> TRUE, allow |-> allow, reason |-> reason, timer |-> timer]

NotParsed == [matched |-> FALSE, allow |-> FALSE, reason |-> None, timer |-> None]

\* a parser that lowers the whole reply before cutting the timer text from it
parse_approval_text_lowered_timer(text) ==
    LET lower == LowerStr(Strip(text))
    IN  IF lower \in {w_proceed, w_continue, w_start, w_go, w_ok, w_okay}
          THEN Parsed(TRUE, None, None)
        ELSE IF lower \in {w_cancel, w_stop, w_abort} THEN Parsed(FALSE, None, None)
        ELSE IF StartsWith(lower, w_allow \o <<" ">>) /\ Strip(From(lower, 6)) # <<>>
          THEN Parsed(TRUE, None, Strip(From(lower, 6)))
        ELSE IF lower \in {w_allow, w_approve, w_yes} THEN Parsed(TRUE, None, None)
        ELSE IF \/ StartsWith(lower, w_deny \o <<":">>)
                \/ StartsWith(lower, w_reject \o <<":">>)
                \/ StartsWith(lower, w_no \o <<":">>)
          THEN LET reason == Strip(From(lower, IndexOf(lower, ":") + 1))
               IN  Parsed(FALSE, IF reason # <<>> THEN reason ELSE None, None)
        ELSE IF /\ \/ StartsWith(lower, w_deny \o <<" ">>)
                   \/ StartsWith(lower, w_reject \o <<" ">>)
                /\ Strip(From(lower, IndexOf(lower, " ") + 1)) # <<>>
          THEN Parsed(FALSE, Strip(From(lower, IndexOf(lower, " ") + 1)), None)
        ELSE IF lower \in {w_deny, w_reject, w_no} THEN Parsed(FALSE, None, None)
        ELSE NotParsed

\* BridgeBase._parse_approval_text; matched = FALSE stands for the None result
parse_approval_text(text) ==
    LET stripped == Strip(text)
        lower == LowerStr(stripped)
    IN  IF lower \in {w_proceed, w_continue, w_start, w_go, w_ok, w_okay}
          THEN Parsed(TRUE, None, None)
        ELSE IF lower \in {w_cancel, w_stop, w_abort} THEN Parsed(FALSE, None, None)
        ELSE IF lower = w_allow_all THEN Parsed(TRUE, None, w_all)
        ELSE IF lower = w_allow_dir THEN Parsed(TRUE, None, w_dir)
        ELSE IF /\ StartsWith(lower, w_allow \o <<" ">>)
                /\ lower # w_allow_all
                /\ Strip(From(stripped, 6)) # <<>>
          THEN Parsed(TRUE, None, Strip(From(stripped, 6)))
        ELSE IF lower \in {w_allow, w_approve, w_yes} THEN Parsed(TRUE, None, None)
        ELSE IF \/ StartsWith(lower, w_deny \o <<":">>)
                \/ StartsWith(lower, w_reject \o <<":">>)
                \/ StartsWith(lower, w_no \o <<":">>)
          THEN LET reason == Strip(From(stripped, IndexOf(stripped, ":") + 1))
               IN  Parsed(FALSE, IF reason # <<>> THEN reason ELSE None, None)
        ELSE IF /\ \/ StartsWith(lower, w_deny \o <<" ">>)
                   \/ StartsWith(lower, w_reject \o <<" ">>)
                /\ Strip(From(stripped, IndexOf(stripped, " ") + 1)) # <<>>
          THEN Parsed(FALSE, Strip(From(stripped, IndexOf(stripped, " ") + 1)), None)
        ELSE IF lower \in {w_deny, w_reject, w_no} THEN Parsed(FALSE, None, None)
        ELSE NotParsed

IsDigit(c) == c \in {"0", "1", "2", "3", "4", "5", "6", "7", "8", "9"}

DigitVal(c) ==
    CASE c = "0" -> 0 [] c = "1" -> 1 [] c = "2" -> 2 [] c = "3" -> 3 [] c = "4" -> 4
      [] c = "5" -> 5 [] c = "6" -> 6 [] c = "7" -> 7 [] c = "8" -> 8 [] OTHER -> 9

\* a string of decimal digits, the strings int() converts
IsDigits(s) == s # <<>> /\ \A i \in 1..Len(s) : IsDigit(s[i])

\* U+00B2, a character of category No: str.isdigit accepts it, int() rejects it
SuperscriptTwo == "<U+00B2>"

\* str.isdigit
str_isdigit(s) == s # <<>> /\ \A i \in 1..Len(s) : IsDigit(s[i]) \/ s[i] = SuperscriptTwo

\* the ValueError int() raises, in place of a result
ValueError == <<"<ValueError>">>

\* int(s) for a digit string
RECURSIVE IntOf(_)
IntOf(s) == IF s = <<>> THEN 0 ELSE 10 * IntOf(SubSeq(s, 1, Len(s) - 1)) + DigitVal(s[Len(s)])

\* the label-match loop: the first option whose casefolded label equals lowered
RECURSIVE FirstLabel(_, _, _)
FirstLabel(options, lowered, i) ==
    IF i > Len(options) THEN None
    ELSE IF LowerStr(options[i]) = lowered THEN options[i]
    ELSE FirstLabel(options, lowered, i + 1)

\* BridgeBase._parse_choice_text
parse_choice_text(pend, thread_id, text) ==
    LET request == DictGet(pend, thread_id, NoRequest) IN
    IF request.kind # "choice" THEN None
    ELSE LET stripped == Strip(text) IN
         IF stripped = <<>> THEN None
         ELSE IF str_isdigit(stripped)
           THEN IF ~IsDigits(stripped) THEN ValueError
                ELSE LET idx == IntOf(stripped) - 1
                     IN  IF 0 <= idx /\ idx < Len(request.options)
                           THEN request.options[idx + 1]
                           ELSE None
         ELSE FirstLabel(request.options, LowerStr(stripped), 1)

-----------------------------------------------------------------------------
(* History of grant issue times.  A scope is <<"all", T>>, <<"tool", T, X>> *)
(* or <<"dir", P>>; its expiry is what the engine stores for it.           *)

Scopes(e) ==
    {<<"all", t>> : t \in DOMAIN e.allow_all_until}
    \cup UNION {{<<"tool", t, x>> : x \in DOMAIN e.allow_tool_until[t]} :
                    t \in DOMAIN e.allow_tool_until}
    \cup {<<"dir", d>> : d \in DirKeys(e)}

ScopeExpiry(e, s) ==
    CASE s[1] = "all" -> e.allow_all_until[s[2]]
      [] s[1] = "tool" -> e.allow_tool_until[s[2]][s[3]]
      [] OTHER -> DirExpiry(e, s[2])

\* a scope is (re)issued by a step exactly when the step writes its entry
Written(e1, e2, s) ==
    s \in Scopes(e2) /\ (s \notin Scopes(e1) \/ ScopeExpiry(e1, s) # ScopeExpiry(e2, s))

IssuedAfter(iss, e1, e2, clock) ==
    [s \in Scopes(e2) |-> IF Written(e1, e2, s) \/ s \notin DOMAIN iss THEN clock ELSE iss[s]]

-----------------------------------------------------------------------------
(* Inputs *)

t_Bash == <<"B", "a", "s", "h">>
t_bash == <<"b", "a", "s", "h">>
t_Task == <<"T", "a", "s", "k">>
t_TaskX == <<" ", "T", "a", "s", "k", "X", " ">>
t_Tas == <<"T", "a", "s">>

\* tool names a grant is written for
GrantTools == {t_Bash, t_Task}

\* tool names check is asked about
CheckTools == {t_Bash, t_bash, t_Task, t_TaskX, t_Tas}

d_root == <<"/">>
d_r == <<"/", "r">>
d_r_slash == <<"/", "r", "/">>
d_r_s == <<"/", "r", "/", "s">>
d_rs == <<"/", "r", "s">>

\* directory arguments as the caller passes them (before normpath)
AssocDirs == {d_r_slash, d_r_s, d_rs}
GrantDirs == {d_root, d_r_slash}


Op(name, thread, arg, res, had) ==
    [op |-> name, thread |-> thread, arg |-> arg, res |-> res, had |-> had]

MutatingOps ==
    {"associate_directory", "set_allow_all", "set_allow_tool", "set_allow_directory",
     "remove_thread"}

-----------------------------------------------------------------------------
(* SpecEngine: the engine driven directly through its public methods *)

InitEngine ==
    /\ now = 0
    /\ approval = NewEngine
    /\ issued = EmptyDict
    /\ lastOp = Op("init", NoThread, <<>>, None, {})
    /\ ops = 0
    /\ handlers = HandlersWith(FALSE)
    /\ command_prefix = <<"!">>
    /\ subscriber = NewSubscriber
    /\ event_log = <<>>
    /\ pending = EmptyDict
    /\ batcher = NewBatcher
    /\ debouncer = NewDebouncer
    /\ thread_state = NewThreadState
    /\ pending_deny_reason = EmptyDict
    /\ typing_tasks = {}
    /\ requests = NoRequests
    /\ batch_log = NoBatchLog
    /\ sent_log = EmptyDict
    /\ co = [s \in Slots |-> IdleTask]

EngineStep(e2, op) ==
    /\ ops < MaxOps
    /\ ops' = ops + 1
    /\ approval' = e2
    /\ issued' = IssuedAfter(issued, approval, e2, now)
    /\ lastOp' = op
    /\ UNCHANGED <<now, configVars, bridgeVars>>

AssociateDirectory(t, d) ==
    /\ EngineStep(associate_directory(approval, t, d),
                  Op("associate_directory", t, d, None, {}))

SetAllowAll(t) ==
    /\ EngineStep(set_allow_all(approval, t, now), Op("set_allow_all", t, <<>>, None, {}))

SetAllowTool(t, x) ==
    /\ EngineStep(set_allow_tool(approval, t, x, now), Op("set_allow_tool", t, x, None, {}))

SetAllowDirectory(d) ==
    /\ EngineStep(set_allow_directory(approval, d, now),
                  Op("set_allow_directory", NoThread, d, None, {}))

\* which of the thread's entries exist (history recorded by RemoveThread)
EngineHad(e, t) ==
    {k \in {"all"} : t \in DOMAIN e.allow_all_until}
    \cup {k \in {"tool"} : t \in DOMAIN e.allow_tool_until}
    \cup {k \in {"directory"} : t \in DOMAIN e.thread_directory}

EngineRemoveThread(t) ==
    /\ EngineStep(engine_remove_thread(approval, t),
                  Op("remove_thread", t, <<>>, None, EngineHad(approval, t)))

Tick ==
    /\ now < MaxTime
    /\ now' = now + 1
    /\ UNCHANGED <<approval, issued, lastOp, ops, configVars, bridgeVars>>

NextEngine ==
    \/ \E t \in Threads, d \in AssocDirs : AssociateDirectory(t, d)
    \/ \E t \in Threads : SetAllowAll(t)
    \/ \E t \in Threads, x \in GrantTools : SetAllowTool(t, x)
    \/ \E d \in GrantDirs : SetAllowDirectory(d)
    \/ \E t \in Threads : EngineRemoveThread(t)
    \/ Tick

SpecEngine == InitEngine /\ [][NextEngine]_vars

-----------------------------------------------------------------------------
(* Vocabulary of the engine claims, stated independently of check's code *)

\* a grant written at issued[s] is within its duration
IssuedLive(s) == s \in DOMAIN issued /\ now < issued[s] + Duration

\* the tool names of CheckTools whose stripped, lower-cased text starts with a
\* never-approve prefix: "Task" and " TaskX " (prefix "task")
NeverPrefixed(x) == x \in {t_Task, t_TaskX}

Components(p) == NormComps(SplitSep(p, 1, <<>>), 1, <<>>, InitialSlashes(p))

\* P is D itself or an ancestor of D: the components of P lead those of D
IsWithin(P, D) ==
    /\ InitialSlashes(P) = InitialSlashes(D)
    /\ Len(Components(P)) <= Len(Components(D))
    /\ SubSeq(Components(D), 1, Len(Components(P))) = Components(P)

HasDirectory(t) == t \in DOMAIN approval.thread_directory

\* a live Directory grant whose path is the thread's directory or an ancestor of it
LiveDirFor(t) ==
    {s \in DOMAIN issued :
        /\ s[1] = "dir"
        /\ IssuedLive(s)
        /\ HasDirectory(t)
        /\ IsWithin(s[2], approval.thread_directory[t])}

LiveToolsFor(t) == {s \in DOMAIN issued : s[1] = "tool" /\ s[2] = t /\ IssuedLive(s)}

Result(t, x) == check(approval, t, x, now)

-----------------------------------------------------------------------------
\* C1: while an AllThread grant for T is within its duration, check(T, X) is
\* non-none for every tool X that is not never-approved; for a tool whose
\* stripped, lower-cased name starts with a never-approve prefix check(T, X) is
\* none in every reachable state, whatever grants are live.
C1_NeverApproveWins ==
    \A t \in Threads, x \in CheckTools :
        /\ NeverPrefixed(x) => Result(t, x) = None
        /\ (~NeverPrefixed(x) /\ IssuedLive(<<"all", t>>)) => Result(t, x) # None

\* an AllThread grant and a ThreadTool grant for "Task" are both live for t1:
\* "Task" is refused, "Bash" is approved
C1_Witness ==
    /\ IssuedLive(<<"all", "t1">>)
    /\ IssuedLive(<<"tool", "t1", t_Task>>)
    /\ Result("t1", t_Task) = None
    /\ Result("t1", t_TaskX) = None
    /\ Result("t1", t_Bash) = s_Allow_All

-----------------------------------------------------------------------------
\* the ThreadTool grant for (t, x) is live and is the only live grant covering t
OnlyToolGrant(t, x) ==
    /\ IssuedLive(<<"tool", t, x>>)
    /\ ~IssuedLive(<<"all", t>>)
    /\ LiveToolsFor(t) = {<<"tool", t, x>>}
    /\ LiveDirFor(t) = {}

NoGrantFor(t) ==
    /\ ~IssuedLive(<<"all", t>>)
    /\ LiveToolsFor(t) = {}
    /\ LiveDirFor(t) = {}

\* C2 as stated: with no other live grant, a live ThreadTool grant for (T, X)
\* makes check(T, X) "Allow X", check(T, Y) none for Y # X, and check(T2, X)
\* none for every other thread T2 (that holds no grant of its own).
C2_Original ==
    \A t \in Threads, x \in GrantTools :
        OnlyToolGrant(t, x) =>
            /\ Result(t, x) = s_Allow_ \o x
            /\ \A y \in CheckTools \ {x} : Result(t, y) = None
            /\ \A t2 \in Threads \ {t} : NoGrantFor(t2) => Result(t2, x) = None

\* C2 amended: the same, except that check(T, X) is "Allow X" only when X is not
\* never-approved; a ThreadTool grant for a never-approved tool yields none.
C2_ToolGrantScope ==
    \A t \in Threads, x \in GrantTools :
        OnlyToolGrant(t, x) =>
            /\ ~NeverPrefixed(x) => Result(t, x) = s_Allow_ \o x
            /\ NeverPrefixed(x) => Result(t, x) = None
            /\ \A y \in CheckTools \ {x} : Result(t, y) = None
            /\ \A t2 \in Threads \ {t} : NoGrantFor(t2) => Result(t2, x) = None

\* only ThreadTool(t1, "Bash") is live: "Bash" is approved on t1, "bash" is not,
\* and t2 gets nothing
C2_Witness ==
    /\ OnlyToolGrant("t1", t_Bash)
    /\ NoGrantFor("t2")
    /\ Result("t1", t_Bash) = s_Allow_ \o t_Bash
    /\ Result("t1", t_bash) = None
    /\ Result("t2", t_Bash) = None

-----------------------------------------------------------------------------
\* the label of a Directory grant for path P
DirLabel(P) == s_Allow_dir_ \o (IF basename(P) # <<>> THEN basename(P) ELSE P)

\* C3: check answers in the priority never-approve, AllThread, ThreadTool,
\* Directory: a live AllThread grant gives "Allow All" even when a ThreadTool or
\* Directory grant is live too; without it a live ThreadTool grant for (T, X)
\* gives "Allow X" even when a Directory grant matches; otherwise a non-none
\* answer is the label of a live Directory grant.
C3_Priority ==
    \A t \in Threads, x \in CheckTools :
        /\ NeverPrefixed(x) => Result(t, x) = None
        /\ (~NeverPrefixed(x) /\ IssuedLive(<<"all", t>>)) => Result(t, x) = s_Allow_All
        /\ (~NeverPrefixed(x) /\ ~IssuedLive(<<"all", t>>) /\ IssuedLive(<<"tool", t, x>>))
              => Result(t, x) = s_Allow_ \o x
        /\ (~NeverPrefixed(x) /\ ~IssuedLive(<<"all", t>>) /\ ~IssuedLive(<<"tool", t, x>>))
              => \/ Result(t, x) = None
                 \/ \E s \in LiveDirFor(t) : Result(t, x) = DirLabel(s[2])

\* AllThread and ThreadTool(t1, "Bash") are both live and the answer is "Allow All"
C3_Witness ==
    /\ IssuedLive(<<"all", "t1">>)
    /\ IssuedLive(<<"tool", "t1", t_Bash>>)
    /\ Result("t1", t_Bash) = s_Allow_All

-----------------------------------------------------------------------------
\* the grant of scope s would answer check(t, x), by the tests check applies
Answers(s, t, x) ==
    \/ s = <<"all", t>>
    \/ s = <<"tool", t, x>>
    \/ /\ s[1] = "dir"
       /\ HasDirectory(t)
       /\ LET D == approval.thread_directory[t]
          IN  D = s[2] \/ StartsWith(D, s[2] \o Sep)

\* C4: a grant of any scope written at clock time t0 with duration d answers
\* check at every time strictly before t0 + d and at no time from t0 + d on:
\* for a tool that is not never-approved, check is non-none exactly when some
\* grant that would answer it was written less than d ago.
C4_Expiry ==
    \A t \in Threads, x \in CheckTools :
        ~NeverPrefixed(x) =>
            (Result(t, x) # None
                <=> \E s \in DOMAIN issued : Answers(s, t, x) /\ now < issued[s] + Duration)

\* an AllThread grant written for t1 has run out: its entry is still stored and
\* check answers none
C4_Witness ==
    /\ <<"all", "t1">> \in DOMAIN issued
    /\ now >= issued[<<"all", "t1">>] + Duration
    /\ "t1" \in DOMAIN approval.allow_all_until
    /\ Result("t1", t_Bash) = None

-----------------------------------------------------------------------------
\* C5: with no live AllThread or ThreadTool grant in the way, check(T, X) is
\* non-none exactly when T has an associated directory D and some live Directory
\* grant's path P is D or an ancestor of D at a path-component boundary.
C5_DirectoryMatch ==
    \A t \in Threads, x \in CheckTools :
        (~NeverPrefixed(x) /\ ~IssuedLive(<<"all", t>>) /\ ~IssuedLive(<<"tool", t, x>>))
            => (Result(t, x) # None <=> LiveDirFor(t) # {})

-----------------------------------------------------------------------------
\* C6: a step of removeThread(T) removes T's AllThread grant, T's ThreadTool
\* grants and T's directory association, leaves the Directory grants and every
\* other thread's entries as they were, and makes check(T, X) none; a thread
\* with none of the three entries is answered none in every state.
C6_RemoveStep(t) ==
    /\ t \notin DOMAIN approval'.allow_all_until
    /\ t \notin DOMAIN approval'.allow_tool_until
    /\ t \notin DOMAIN approval'.thread_directory
    /\ \A x \in CheckTools : check(approval', t, x, now') = None
    /\ approval'.allow_dir_until = approval.allow_dir_until
    /\ \A t2 \in Threads \ {t} :
        /\ (t2 \in DOMAIN approval'.allow_all_until) = (t2 \in DOMAIN approval.allow_all_until)
        /\ (t2 \in DOMAIN approval'.allow_tool_until) = (t2 \in DOMAIN approval.allow_tool_until)
        /\ (t2 \in DOMAIN approval'.thread_directory) = (t2 \in DOMAIN approval.thread_directory)
        /\ DictGet(approval'.allow_all_until, t2, 0) = DictGet(approval.allow_all_until, t2, 0)
        /\ DictGet(approval'.allow_tool_until, t2, EmptyDict)
              = DictGet(approval.allow_tool_until, t2, EmptyDict)
        /\ DictGet(approval'.thread_directory, t2, None)
              = DictGet(approval.thread_directory, t2, None)
        /\ \A x \in CheckTools : check(approval', t2, x, now') = check(approval, t2, x, now)

NoEntries(t) ==
    /\ t \notin DOMAIN approval.allow_all_until
    /\ t \notin DOMAIN approval.allow_tool_until
    /\ t \notin DOMAIN approval.thread_directory

C6_RemoveThread ==
    /\ [][\A t \in Threads : EngineRemoveThread(t) => C6_RemoveStep(t)]_vars
    /\ [](\A t \in Threads : NoEntries(t) => \A x \in CheckTools : Result(t, x) = None)

\* removeThread(t1) has just removed a live AllThread grant of t1 while t2 keeps
\* its own live grant and a Directory grant stays stored
C6_Witness ==
    /\ lastOp.op = "remove_thread"
    /\ lastOp.thread = "t1"
    /\ "all" \in lastOp.had
    /\ NoEntries("t1")
    /\ Result("t1", t_Bash) = None
    /\ Result("t2", t_Bash) = s_Allow_All


-----------------------------------------------------------------------------
(* BridgeBase: the command registry and the text of the messages *)

w_Allow == <<"A", "l", "l", "o", "w">>
w_Deny == <<"D", "e", "n", "y">>
w_error == <<"e", "r", "r", "o", "r">>
w_running == <<"r", "u", "n", "n", "i", "n", "g">>

\* BridgeBase._commands after _register_builtins (nothing disabled, no custom commands)
Commands == {w_help, w_status, w_stop, w_usage}

\* the commands the bridge is constructed with: commands={"run": CommandDef(...)}
w_run == <<"r", "u", "n">>
CustomCommands == {w_run}

\* the callback of Handlers behind a built-in command
BuiltinCallback(cmd_name) ==
    CASE cmd_name = w_status -> "on_status_request"
      [] cmd_name = w_stop -> "on_stop_request"
      [] OTHER -> "on_usage_request"

\* 0-based position of the first whitespace of s, Len(s) when there is none
RECURSIVE FirstSpace(_)
FirstSpace(s) == IF s = <<>> \/ IsSpace(Head(s)) THEN 0 ELSE 1 + FirstSpace(Tail(s))

\* _dispatch_command's split with the command name as it was typed
split_command_keeps_case(text, prefix) ==
    LET without_prefix == Strip(From(text, Len(prefix)))
        k == FirstSpace(without_prefix)
    IN  [none |-> without_prefix = <<>>,
         cmd_name |-> SubSeq(without_prefix, 1, k),
         args |-> Strip(From(without_prefix, k))]

\* _dispatch_command: the command name and the args of a command line;
\* none stands for the empty parts list
split_command(text, prefix) ==
    LET without_prefix == Strip(From(text, Len(prefix)))
        k == FirstSpace(without_prefix)
    IN  [none |-> without_prefix = <<>>,
         cmd_name |-> LowerStr(SubSeq(without_prefix, 1, k)),
         args |-> Strip(From(without_prefix, k))]

\* BridgeBase._dispatch_command, up to its first await
dispatch_command(task, hs, prefix, thread_id, text) ==
    LET c == split_command(text, prefix) IN
    IF c.none THEN Done(task)
    ELSE IF c.cmd_name \in CustomCommands
      THEN Call(task, CommandCall("handler", thread_id, c.cmd_name, c.args), "cmd_reply")
    ELSE IF c.cmd_name \in Commands
      THEN IF c.cmd_name = w_help
             THEN Send(task, Msg("reply", w_help), "cmd_sent")
           ELSE IF hs[BuiltinCallback(c.cmd_name)]
             THEN Call(task, CommandCall(BuiltinCallback(c.cmd_name), thread_id,
                                         c.cmd_name, c.args), "cmd_reply")
           ELSE Done(task)
    ELSE IF hs.on_command
      THEN Call(task, CommandCall("on_command", thread_id, c.cmd_name, c.args),
                "catchall_reply")
    ELSE Send(task, Msg("unknown_command", c.cmd_name), "end")

\* _handle_approval_parsed's timers without the fall-back of "dir" to allow-all
grants_after_parsed_no_fallback(e, thread_id, parsed, clock) ==
    IF ~parsed.allow THEN e
    ELSE IF parsed.timer = w_all THEN set_allow_all(e, thread_id, clock)
    ELSE IF parsed.timer = w_dir
      THEN LET directory == get_directory(e, thread_id)
           IN  IF directory # None /\ directory # <<>>
                 THEN set_allow_directory(e, directory, clock)
                 ELSE e
    ELSE IF parsed.timer # None /\ parsed.timer # <<>>
      THEN set_allow_tool(e, thread_id, parsed.timer, clock)
    ELSE e

\* grants where an allow without a timer gives the allow-all grant
grants_after_parsed_plain_allow(e, thread_id, parsed, clock) ==
    IF ~parsed.allow THEN e
    ELSE IF parsed.timer = w_all \/ parsed.timer = None THEN set_allow_all(e, thread_id, clock)
    ELSE IF parsed.timer = w_dir
      THEN LET directory == get_directory(e, thread_id)
           IN  IF directory # None /\ directory # <<>>
                 THEN set_allow_directory(e, directory, clock)
                 ELSE set_allow_all(e, thread_id, clock)
    ELSE set_allow_tool(e, thread_id, parsed.timer, clock)

\* the grants written by _handle_approval_parsed
grants_after_parsed(e, thread_id, parsed, clock) ==
    IF ~parsed.allow THEN e
    ELSE IF parsed.timer = w_all THEN set_allow_all(e, thread_id, clock)
    ELSE IF parsed.timer = w_dir
      THEN LET directory == get_directory(e, thread_id)
           IN  IF directory # None /\ directory # <<>>
                 THEN set_allow_directory(e, directory, clock)
                 ELSE set_allow_all(e, thread_id, clock)
    ELSE IF parsed.timer # None /\ parsed.timer # <<>>
      THEN set_allow_tool(e, thread_id, parsed.timer, clock)
    ELSE e

\* the confirmation _handle_approval_parsed sends
confirmation(parsed) ==
    IF parsed.allow
      THEN Msg("approved", IF parsed.timer # None THEN parsed.timer ELSE <<>>)
      ELSE Msg("denied", IF parsed.reason # None THEN parsed.reason ELSE <<>>)

\* _handle_approval_parsed clearing the pending request only on an allow
handle_approval_parsed_keeps_on_deny(task, hs, pend_map, e, clock, thread_id, request, parsed) ==
    [task |-> IF hs.on_approval_response
                THEN Call(task, ApprovalCall(thread_id, request.request_id, parsed.allow,
                                             parsed.reason, parsed.timer),
                          "confirm_approval")
                ELSE Send(task, confirmation(parsed), "end"),
     pending |-> IF parsed.allow THEN DictPop(pend_map, thread_id) ELSE pend_map,
     approval |-> grants_after_parsed(e, thread_id, parsed, clock)]

\* _handle_approval_parsed with the pending request cleared after the await of
\* the callback instead of before it
handle_approval_parsed_pops_late(task, hs, pend_map, e, clock, thread_id, request, parsed) ==
    [task |-> IF hs.on_approval_response
                THEN Call(task, ApprovalCall(thread_id, request.request_id, parsed.allow,
                                             parsed.reason, parsed.timer),
                          "confirm_approval")
                ELSE Send(task, confirmation(parsed), "end"),
     pending |-> IF hs.on_approval_response THEN pend_map ELSE DictPop(pend_map, thread_id),
     approval |-> grants_after_parsed(e, thread_id, parsed, clock)]

\* BridgeBase._handle_approval_parsed, up to its first await
handle_approval_parsed(task, hs, pend_map, e, clock, thread_id, request, parsed) ==
    [task |-> IF hs.on_approval_response
                THEN Call(task, ApprovalCall(thread_id, request.request_id, parsed.allow,
                                             parsed.reason, parsed.timer),
                          "confirm_approval")
                ELSE Send(task, confirmation(parsed), "end"),
     pending |-> DictPop(pend_map, thread_id),
     approval |-> grants_after_parsed(e, thread_id, parsed, clock)]

\* the precedence of _dispatch_message with the permission test asking only
\* whether any request is pending
dispatch_route_any_pending(pend, selected, parsed, stripped, prefix) ==
    IF stripped = <<>> THEN "blank"
    ELSE IF pend.kind = "choice" /\ selected # None /\ selected # <<>> THEN "choice"
    ELSE IF pend.kind # "none" /\ parsed.matched THEN "permission"
    ELSE IF StartsWith(stripped, prefix) THEN "command"
    ELSE "input"

\* the precedence of _dispatch_message with the command test first
dispatch_route_command_first(pend, selected, parsed, stripped, prefix) ==
    IF stripped = <<>> THEN "blank"
    ELSE IF StartsWith(stripped, prefix) THEN "command"
    ELSE IF pend.kind = "choice" /\ selected # None /\ selected # <<>> THEN "choice"
    ELSE IF pend.kind = "permission" /\ parsed.matched THEN "permission"
    ELSE "input"

\* the precedence of BridgeBase._dispatch_message: which branch takes the message
dispatch_route(pend, selected, parsed, stripped, prefix) ==
    IF stripped = <<>> THEN "blank"
    ELSE IF pend.kind = "choice" /\ selected # None /\ selected # <<>> THEN "choice"
    ELSE IF pend.kind = "permission" /\ parsed.matched THEN "permission"
    ELSE IF StartsWith(stripped, prefix) THEN "command"
    ELSE "input"

\* BridgeBase._dispatch_message, up to its first await: the coroutine, and
\* _pending and the engine as it leaves them
dispatch_message(hs, prefix, pend_map, e, clock, thread_id, text) ==
    LET stripped == Strip(text)
        pend == DictGet(pend_map, thread_id, NoRequest)
        selected == parse_choice_text(pend_map, thread_id, stripped)
        parsed == parse_approval_text(stripped)
        route == IF selected = ValueError THEN "raise"
                 ELSE dispatch_route(pend, selected, parsed, stripped, prefix)
        task == NewTask("dispatch_message", thread_id, stripped, <<>>, pend, route)
        same(tk) == [task |-> tk, pending |-> pend_map, approval |-> e]
    IN  CASE route = "blank" -> same(task)
          [] route = "raise" -> same(Raised(task))
          [] route = "choice" ->
               [task |-> IF hs.on_approval_response
                           THEN Call(task, ApprovalCall(thread_id, pend.request_id, TRUE,
                                                        selected, None), "confirm_choice")
                           ELSE Send(task, Msg("selected", selected), "end"),
                pending |-> DictPop(pend_map, thread_id),
                approval |-> e]
          [] route = "permission" ->
               handle_approval_parsed(task, hs, pend_map, e, clock, thread_id, pend, parsed)
          [] route = "command" ->
               same(dispatch_command(task, hs, prefix, thread_id, stripped))
          [] OTHER ->
               same(IF hs.on_input THEN Call(task, InputCall(thread_id, stripped), "end")
                    ELSE task)

\* self._pending[thread_id] = request, written as a setdefault
store_pending_if_absent(pend_map, thread_id, request) ==
    IF thread_id \in DOMAIN pend_map THEN pend_map ELSE DictSet(pend_map, thread_id, request)

\* self._pending[thread_id] = request
store_pending(pend_map, thread_id, request) == DictSet(pend_map, thread_id, request)

\* the coroutine after the call it awaited came back; outcome is "return"
\* (no value), "reply" (a text) or "raise"
Continue(task, outcome) ==
    CASE task.next = "confirm_choice" ->
           IF outcome = "raise" THEN Raised(task)
           ELSE Send(task, Msg("selected", task.calls[Len(task.calls)].reason), "end")
      [] task.next = "confirm_approval" ->
           IF outcome = "raise" THEN Raised(task)
           ELSE Send(task, confirmation(parse_approval_text(task.text)), "end")
      [] task.next = "cmd_reply" ->
           IF outcome = "raise"
             THEN Send(task, Msg("command_failed", task.calls[Len(task.calls)].text), "end")
           ELSE IF outcome = "reply" THEN Send(task, Msg("reply", <<>>), "cmd_sent")
           ELSE Done(task)
      [] task.next = "cmd_sent" ->
           IF outcome = "raise"
             THEN Send(task, Msg("command_failed", split_command(task.text, command_prefix).cmd_name), "end")
           ELSE Done(task)
      [] task.next = "catchall_reply" ->
           IF outcome = "reply" THEN Send(task, Msg("reply", <<>>), "catchall_sent")
           ELSE Done(task)
      [] task.next = "catchall_sent" -> Done(task)
      [] task.next = "edit" ->
           IF outcome = "raise" THEN Raised(task)
           ELSE Send(task, Msg("edit", task.text), "end")
      [] task.next = "deny_reply" ->
           IF outcome = "raise" THEN Raised(task)
           ELSE Send(task, Msg("denied", task.text), "end")
      [] OTHER -> IF outcome = "raise" THEN Raised(task) ELSE Done(task)

\* what an awaited call can come back with
Outcomes(task) ==
    IF task.next \in {"cmd_reply", "catchall_reply"}
      THEN {"return", "reply", "raise"}
      ELSE {"return", "raise"}

-----------------------------------------------------------------------------
(* BridgeBase: the methods as steps *)

\* inbound texts
x_blank == <<" ">>
x_1 == <<"1">>
x_help == <<"!", "h", "e", "l", "p">>
x_foo == <<"!", "f", "o", "o">>
x_yes == <<"Y", "e", "s">>
x_hi == <<"h", "i">>

Texts == {x_blank, x_1, x_help, x_foo, x_yes, w_allow_all, x_hi}

\* the option list of the choice requests: one label looks like a command
ChoiceOptions == <<x_help, w_yes>>

Tools == {t_Bash, t_Task}

FreeSlots == {s \in Slots : ~Running(co[s])}

\* a new coroutine takes the lowest slot that holds no running coroutine
Slot == CHOOSE s \in FreeSlots : \A r \in FreeSlots : s <= r

CanStart == ops < MaxCalls /\ FreeSlots # {}

\* history: request_id is rendered and overwrites the pending request of t
Rendered(t, request_id) ==
    [rendered |-> requests.rendered \cup {request_id},
     replaced |-> requests.replaced \cup
                    (IF t \in DOMAIN pending THEN {pending[t].request_id} ELSE {})]

Started(task) == co' = [co EXCEPT ![Slot] = task] /\ ops' = ops + 1

\* send_approval_request without the auto-approve check: every request is asked
SendApprovalRequest_always_asks(t, x) ==
    /\ CanStart
    /\ LET request == ApprovalRequest("permission", ops + 1, x, <<w_Allow, w_Deny>>)
       IN  /\ typing_tasks' = typing_tasks \ {t}
           /\ pending' = store_pending(pending, t, request)
           /\ requests' = Rendered(t, ops + 1)
           /\ Started(Send(NewTask("send_approval_request", t, <<>>, <<>>, request, "ask"),
                           Msg("approval", x), "end"))
    /\ UNCHANGED <<now, approval, issued, lastOp, configVars, batcher, batch_log, debouncer, sent_log,
                   thread_state, pending_deny_reason>>

\* BridgeBase.send_approval_request; the request id is fresh
SendApprovalRequest(t, x) ==
    /\ CanStart
    /\ LET request == ApprovalRequest("permission", ops + 1, x, <<w_Allow, w_Deny>>)
           reason == check(approval, t, x, now)
           task(route) == NewTask("send_approval_request", t, <<>>, <<>>, request, route)
       IN  IF reason # None /\ reason # <<>>
             THEN /\ IF handlers.on_approval_response
                       THEN /\ Started(Call(task("auto"),
                                            ApprovalCall(t, request.request_id, TRUE, None, reason),
                                            "batch_add"))
                            /\ UNCHANGED <<batcher, batch_log>>
                       ELSE /\ Started(task("auto"))
                            /\ batcher' = batcher_add(batcher, t, x, reason, now)
                            /\ batch_log' = LogAdd(batch_log, t, <<x, reason>>, now)
                  /\ UNCHANGED <<pending, typing_tasks, requests>>
             ELSE /\ typing_tasks' = typing_tasks \ {t}
                  /\ pending' = store_pending(pending, t, request)
                  /\ requests' = Rendered(t, ops + 1)
                  /\ Started(Send(task("ask"), Msg("approval", x), "end"))
                  /\ UNCHANGED <<batcher, batch_log>>
    /\ UNCHANGED <<now, approval, issued, lastOp, configVars, debouncer, sent_log, thread_state,
                   pending_deny_reason>>

\* send_choice_request with the auto-approve check of send_approval_request
SendChoiceRequest_checks_engine(t, options) ==
    /\ CanStart
    /\ LET request == ApprovalRequest("choice", ops + 1, <<>>, options)
           reason == check(approval, t, request.title, now)
           task(route) == NewTask("send_choice_request", t, <<>>, <<>>, request, route)
       IN  IF reason # None /\ reason # <<>>
             THEN /\ Started(task("auto"))
                  /\ batcher' = batcher_add(batcher, t, request.title, reason, now)
                  /\ batch_log' = LogAdd(batch_log, t, <<request.title, reason>>, now)
                  /\ UNCHANGED <<pending, typing_tasks, requests>>
             ELSE /\ typing_tasks' = typing_tasks \ {t}
                  /\ pending' = store_pending(pending, t, request)
                  /\ requests' = Rendered(t, ops + 1)
                  /\ Started(Send(task("ask"), Msg("choice", <<>>), "end"))
                  /\ UNCHANGED <<batcher, batch_log>>
    /\ UNCHANGED <<now, approval, issued, lastOp, configVars, debouncer, sent_log, thread_state,
                   pending_deny_reason>>

\* BridgeBase.send_choice_request
SendChoiceRequest(t, options) ==
    /\ CanStart
    /\ LET request == ApprovalRequest("choice", ops + 1, <<>>, options)
       IN  /\ typing_tasks' = typing_tasks \ {t}
           /\ pending' = store_pending(pending, t, request)
           /\ requests' = Rendered(t, ops + 1)
           /\ Started(Send(NewTask("send_choice_request", t, <<>>, <<>>, request, "ask"),
                           Msg("choice", <<>>), "end"))
    /\ UNCHANGED <<now, approval, issued, lastOp, configVars, batcher, batch_log, debouncer, sent_log,
                   thread_state, pending_deny_reason>>

\* the state after _dispatch_message ran up to its first await
Dispatched(t, text) ==
    LET r == dispatch_message(handlers, command_prefix, pending, approval, now, t, text)
    IN  /\ Started(r.task)
        /\ pending' = r.pending
        /\ approval' = r.approval
        /\ issued' = IssuedAfter(issued, approval, r.approval, now)

\* BridgeBase._dispatch_message, called by the platform with an inbound text
DispatchMessage(t, text) ==
    /\ CanStart
    /\ Dispatched(t, text)
    /\ UNCHANGED <<now, lastOp, configVars, batcher, batch_log, debouncer, sent_log, thread_state,
                   pending_deny_reason, typing_tasks, requests>>

\* the body of BridgeBase.remove_thread
Removed(t) ==
    /\ pending' = DictPop(pending, t)
    /\ approval' = engine_remove_thread(approval, t)
    /\ issued' = IssuedAfter(issued, approval, approval', now)
    /\ batcher' = batcher_remove_thread(batcher, t)
    /\ batch_log' = LogRemove(batch_log, t)
    /\ debouncer' = debouncer_remove_thread(debouncer, t)
    /\ sent_log' = DictPop(sent_log, t)
    /\ thread_state' = unregister(thread_state, t)

\* BridgeBase.remove_thread: it never suspends
RemoveThread(t) ==
    /\ ops < MaxCalls
    /\ Removed(t)
    /\ ops' = ops + 1
    /\ UNCHANGED <<now, lastOp, configVars, pending_deny_reason, typing_tasks, requests, co>>

\* a resumption that puts the request back when the confirmation cannot be sent
Resume_restores_pending(s, outcome) ==
    /\ Running(co[s])
    /\ co[s].next \notin {"batch_add", "register", "click"}
    /\ outcome \in Outcomes(co[s])
    /\ co' = [co EXCEPT ![s] = Continue(co[s], outcome)]
    /\ pending' = IF /\ outcome = "raise" /\ co[s].st = "send"
                     /\ co[s].route \in {"choice", "permission"}
                    THEN DictSet(pending, co[s].thread, co[s].pend)
                    ELSE pending
    /\ UNCHANGED <<now, approval, issued, lastOp, ops, configVars, batcher, batch_log,
                   debouncer, sent_log, thread_state, pending_deny_reason, typing_tasks, requests>>

\* an awaited callback or transport operation comes back
Resume(s, outcome) ==
    /\ Running(co[s])
    /\ co[s].next \notin {"batch_add", "register", "click"}
    /\ outcome \in Outcomes(co[s])
    /\ co' = [co EXCEPT ![s] = Continue(co[s], outcome)]
    /\ UNCHANGED <<now, approval, issued, lastOp, ops, configVars, pending, batcher, batch_log,
                   debouncer, sent_log, thread_state, pending_deny_reason, typing_tasks, requests>>

\* BridgeBase._auto_approve after the callback: batcher.add
ResumeAutoApprove(s, outcome) ==
    /\ Running(co[s])
    /\ co[s].next = "batch_add"
    /\ co' = [co EXCEPT ![s] = Continue(co[s], outcome)]
    /\ batcher' = IF outcome = "raise" THEN batcher
                  ELSE batcher_add(batcher, co[s].thread, co[s].pend.title,
                                   co[s].calls[Len(co[s].calls)].timer, now)
    /\ batch_log' = IF outcome = "raise" THEN batch_log
                    ELSE LogAdd(batch_log, co[s].thread,
                                <<co[s].pend.title, co[s].calls[Len(co[s].calls)].timer>>, now)
    /\ UNCHANGED <<now, approval, issued, lastOp, ops, configVars, pending, debouncer, sent_log,
                   thread_state, pending_deny_reason, typing_tasks, requests>>

InitBridge ==
    /\ now = 0
    /\ approval = NewEngine
    /\ issued = EmptyDict
    /\ lastOp = Op("init", NoThread, <<>>, None, {})
    /\ ops = 0
    /\ handlers \in {HandlersWith(TRUE), HandlersWith(FALSE)}
    /\ command_prefix = <<"!">>
    /\ subscriber = NewSubscriber
    /\ event_log = <<>>
    /\ pending = EmptyDict
    /\ batcher = NewBatcher
    /\ debouncer = NewDebouncer
    /\ thread_state = NewThreadState
    /\ pending_deny_reason = EmptyDict
    /\ typing_tasks = {}
    /\ requests = NoRequests
    /\ batch_log = NoBatchLog
    /\ sent_log = EmptyDict
    /\ co = [s \in Slots |-> IdleTask]

NextBridge ==
    \/ \E t \in Threads, x \in Tools : SendApprovalRequest(t, x)
    \/ \E t \in Threads : SendChoiceRequest(t, ChoiceOptions)
    \/ \E t \in Threads, text \in Texts : DispatchMessage(t, text)
    \/ \E t \in Threads : RemoveThread(t)
    \/ \E s \in Slots, outcome \in {"return", "reply", "raise"} : Resume(s, outcome)
    \/ \E s \in Slots, outcome \in {"return", "raise"} : ResumeAutoApprove(s, outcome)

SpecBridge == InitBridge /\ [][NextBridge]_vars


-----------------------------------------------------------------------------
(* Vocabulary of the dispatcher claims *)

\* the slots holding a call of _dispatch_message, running or finished
DispatchTasks == {s \in Slots : co[s].kind = "dispatch_message"}

\* the positions in a coroutine's calls at which the approval callback was called
ApprovalCalls(task) ==
    {i \in 1..Len(task.calls) : task.calls[i].cb = "on_approval_response"}

\* the option a reply selects: a reply of digits is a 1-based index, any other
\* reply is a label compared without case; 0 when it selects none
MatchIndex(options, reply) ==
    IF reply = <<>> THEN 0
    ELSE IF IsDigits(reply)
      THEN IF 1 <= IntOf(reply) /\ IntOf(reply) <= Len(options) THEN IntOf(reply) ELSE 0
    ELSE LET m == {i \in 1..Len(options) : LowerStr(options[i]) = LowerStr(reply)}
         IN  IF m = {} THEN 0 ELSE CHOOSE i \in m : \A j \in m : i <= j

\* the dispatches of a text that selects an option of the pending Choice
ChoiceReplies ==
    {s \in DispatchTasks : /\ co[s].pend.kind = "choice"
                           /\ MatchIndex(co[s].pend.options, co[s].text) > 0}

-----------------------------------------------------------------------------
(* C8: every thread has at most one pending request, a Permission or a      *)
(* Choice; opening a request that is not auto-approved makes it the         *)
(* thread's pending request in place of the previous one; and the text path *)
(* passes to the approval callback only the id of the request that was      *)
(* pending when the text was dispatched, never the id of an overwritten one.*)
C8_OnePending ==
    /\ [](\A t \in DOMAIN pending :
            t \in Threads /\ pending[t].kind \in {"permission", "choice"})
    /\ [][\A t \in Threads :
            /\ \A x \in Tools :
                 SendApprovalRequest(t, x) /\ check(approval, t, x, now) = None
                   => /\ t \in DOMAIN pending'
                      /\ pending'[t] = ApprovalRequest("permission", ops + 1, x,
                                                       <<w_Allow, w_Deny>>)
            /\ SendChoiceRequest(t, ChoiceOptions)
                   => /\ t \in DOMAIN pending'
                      /\ pending'[t] = ApprovalRequest("choice", ops + 1, <<>>,
                                                       ChoiceOptions)]_vars
    /\ [](\A s \in DispatchTasks : \A i \in ApprovalCalls(co[s]) :
            /\ co[s].pend.kind # "none"
            /\ co[s].calls[i].request_id = co[s].pend.request_id
            /\ co[s].calls[i].request_id \notin requests.replaced)

\* a Choice (id 1) was overwritten by a Permission request (id 2) and the
\* reply "Yes" resolved request 2
C8_Witness ==
    /\ requests.replaced = {1}
    /\ \E s \in DispatchTasks :
         /\ co[s].thread = "t1"
         /\ co[s].text = x_yes
         /\ co[s].calls = <<ApprovalCall("t1", 2, TRUE, None, None)>>
         /\ "t1" \notin DOMAIN pending

-----------------------------------------------------------------------------
(* C9: a text that selects an option of the thread's pending Choice takes   *)
(* the choice branch only: the pending request is cleared, the approval     *)
(* callback is called once with the request's id and the selected label,    *)
(* no command or input callback is called, and once the callback has        *)
(* returned the confirmation is the one message sent; this also when the    *)
(* text starts with the command prefix.                                     *)
C9_ChoiceReply ==
    /\ [](\A s \in ChoiceReplies :
            LET task == co[s]
                label == task.pend.options[MatchIndex(task.pend.options, task.text)]
            IN  /\ task.route = "choice"
                /\ task.calls = IF handlers.on_approval_response
                                  THEN <<ApprovalCall(task.thread, task.pend.request_id,
                                                      TRUE, label, None)>>
                                  ELSE <<>>
                /\ task.sent \in {<<>>, <<Msg("selected", label)>>}
                /\ task.st \in {"send", "done"} => task.sent = <<Msg("selected", label)>>)
    /\ [][\A t \in Threads, text \in Texts :
            /\ DispatchMessage(t, text)
            /\ DictGet(pending, t, NoRequest).kind = "choice"
            /\ MatchIndex(pending[t].options, Strip(text)) > 0
            => t \notin DOMAIN pending']_vars

\* the reply "!help" selected the option of that label and the handling finished
C9_Witness ==
    /\ handlers.on_approval_response /\ handlers.on_command
    /\ \E s \in ChoiceReplies :
         /\ co[s].text = x_help
         /\ StartsWith(co[s].text, command_prefix)
         /\ co[s].st = "done"
         /\ Len(co[s].calls) = 1
         /\ co[s].thread \notin DOMAIN pending

-----------------------------------------------------------------------------
-----------------------------------------------------------------------------
(* TelegramBridge (platforms/telegram/bridge.py): the bridge with forum     *)
(* topics as threads.  A thread id is the decimal string of a topic id.     *)

\* int(thread_id): "t1" and "t2" stand for the strings of topics 1 and 2
topic_id(thread_id) == IF thread_id = "t1" THEN 1 ELSE 2

\* the option part of the callback data of an approval button
o_Choose == <<"C", "h", "o", "o", "s", "e", ":">>
o_DenyWithReason == <<"D", "e", "n", "y", "W", "i", "t", "h", "R", "e", "a", "s", "o", "n">>
o_AllowAll == <<"A", "l", "l", "o", "w", "A", "l", "l">>
o_AllowDir == <<"A", "l", "l", "o", "w", "D", "i", "r">>
o_AllowTool == <<"A", "l", "l", "o", "w", "T", "o", "o", "l", ":">>
w_expired == <<"e", "x", "p", "i", "r", "e", "d">>

\* the request id a button or a deny-reason entry carries, in a coroutine's pend field
Carried(request_id) == [NoRequest EXCEPT !.request_id = request_id]

\* TelegramBridge._handle_callback_query after query.answer() returned, up to
\* its next await.  The ShowAll button (which only sends the cached
\* description) is not among the options of the model.
callback_query(task, hs, pend_map, e, deny_map, clock) ==
    LET thread_id == task.thread
        request_id == task.pend.request_id
        option == task.text
        pend == DictGet(pend_map, thread_id, NoRequest)
        result(tk, pm, e2, dm) ==
            [task |-> tk, pending |-> pm, approval |-> e2, pending_deny_reason |-> dm]
        answered(c) ==
            IF hs.on_approval_response THEN Call(task, c, "edit")
            ELSE Send(task, Msg("edit", option), "end")
    IN  IF StartsWith(option, o_Choose)
          THEN IF pend.kind # "choice"
                 THEN result(Send(task, Msg("edit", w_expired), "end"), pend_map, e, deny_map)
               ELSE LET num == From(option, Len(o_Choose))
                        idx == IF IsDigits(num) THEN IntOf(num) - 1 ELSE -1
                    IN  IF idx < 0 \/ idx >= Len(pend.options)
                          THEN result(Done(task), pend_map, e, deny_map)
                          ELSE result(answered(ApprovalCall(thread_id, pend.request_id, TRUE,
                                                            pend.options[idx + 1], None)),
                                      DictPop(pend_map, thread_id), e, deny_map)
        ELSE IF option = o_DenyWithReason
          THEN result(Send(task, Msg("edit", option), "end"), pend_map, e,
                      DictSet(deny_map, topic_id(thread_id),
                              [thread_id |-> thread_id, request_id |-> request_id]))
        ELSE LET directory == get_directory(e, thread_id)
                 timed == \/ option \in {o_AllowAll, o_AllowDir}
                          \/ StartsWith(option, o_AllowTool)
                 e2 == IF option = o_AllowAll THEN set_allow_all(e, thread_id, clock)
                       ELSE IF option = o_AllowDir
                         THEN IF directory # None /\ directory # <<>>
                                THEN set_allow_directory(e, directory, clock)
                                ELSE set_allow_all(e, thread_id, clock)
                       ELSE IF StartsWith(option, o_AllowTool)
                         THEN set_allow_tool(e, thread_id, From(option, Len(o_AllowTool)), clock)
                       ELSE e
                 allow == timed \/ LowerStr(option) \in {w_allow, w_yes, w_approve}
                 timer == IF option = o_AllowAll THEN w_all
                          ELSE IF option = o_AllowDir THEN w_dir
                          ELSE IF StartsWith(option, o_AllowTool)
                            THEN From(option, Len(o_AllowTool))
                          ELSE None
             IN  result(answered(ApprovalCall(thread_id, request_id, allow, None, timer)),
                        DictPop(pend_map, thread_id), e2, deny_map)

\* TelegramBridge._handle_message for a text in a topic, up to its first await
handle_message(hs, prefix, pend_map, e, deny_map, clock, thread_id, text) ==
    LET stripped == Strip(text)
        topic == topic_id(thread_id)
    IN  IF topic \in DOMAIN deny_map
          THEN LET pending_deny == deny_map[topic]
                   task == NewTask("handle_message", thread_id, stripped, <<>>,
                                   Carried(pending_deny.request_id), "deny_reason")
               IN  [task |-> IF hs.on_approval_response
                               THEN Call(task, ApprovalCall(pending_deny.thread_id,
                                                            pending_deny.request_id, FALSE,
                                                            stripped, None), "deny_reply")
                               ELSE Send(task, Msg("denied", stripped), "end"),
                    pending |-> DictPop(pend_map, pending_deny.thread_id),
                    approval |-> e,
                    pending_deny_reason |-> DictPop(deny_map, topic)]
          ELSE LET r == dispatch_message(hs, prefix, pend_map, e, clock, thread_id, stripped)
               IN  [task |-> r.task, pending |-> r.pending, approval |-> r.approval,
                    pending_deny_reason |-> deny_map]

\* the topics and the inputs of the Telegram bridge
Topics == {"t1"}
n_repo == <<"R", "e", "p", "o">>
Directories == {None, d_rs}
Statuses == {w_error, w_running}
Buttons == {o_DenyWithReason, o_AllowAll, w_Deny}
Messages == {x_hi, x_yes}

\* BridgeBase.create_thread: suspended in _platform_create_thread
CreateThread(name, directory) ==
    /\ CanStart
    /\ Started(Send(NewTask("create_thread", NoThread, name, directory, NoRequest, "-"),
                    Msg("create_forum_topic", name), "register"))
    /\ UNCHANGED <<now, approval, issued, lastOp, configVars, pending, batcher, batch_log, debouncer, sent_log,
                   thread_state, pending_deny_reason, typing_tasks, requests>>

\* BridgeBase.create_thread after the platform returned the id of the new topic
ResumeCreateThread(s, outcome, t) ==
    /\ Running(co[s])
    /\ co[s].next = "register"
    /\ IF outcome = "raise"
         THEN /\ co' = [co EXCEPT ![s] = Raised(co[s])]
              /\ UNCHANGED <<approval, issued, thread_state>>
         ELSE /\ co' = [co EXCEPT ![s] = Done([co[s] EXCEPT !.thread = t])]
              /\ thread_state' = register(thread_state, t, co[s].text)
              /\ approval' = IF co[s].arg # None /\ co[s].arg # <<>>
                               THEN associate_directory(approval, t, co[s].arg)
                               ELSE approval
              /\ issued' = IssuedAfter(issued, approval, approval', now)
    /\ UNCHANGED <<now, lastOp, ops, configVars, pending, batcher, batch_log, debouncer, sent_log,
                   pending_deny_reason, typing_tasks, requests>>

\* BridgeBase.send_status
SendStatus(t, status) ==
    /\ CanStart
    /\ LET task == NewTask("send_status", t, status, <<>>, NoRequest, "-")
       IN  IF status = w_error
             THEN /\ debouncer' = after_should_send(debouncer, t, now)
                  /\ sent_log' = LogShouldSend(sent_log, t, should_send(debouncer, t, now), now)
                  /\ Started(IF should_send(debouncer, t, now)
                               THEN Send(task, Msg("status", status), "end")
                               ELSE task)
             ELSE /\ Started(Send(task, Msg("status", status), "end"))
                  /\ UNCHANGED <<debouncer, sent_log>>
    /\ UNCHANGED <<now, approval, issued, lastOp, configVars, pending, batcher, batch_log,
                   thread_state, pending_deny_reason, typing_tasks, requests>>

\* BridgeBase.send_typing with TelegramBridge._platform_typing_start
SendTyping(t) ==
    /\ ops < MaxCalls
    /\ ops' = ops + 1
    /\ typing_tasks' = typing_tasks \cup {t}
    /\ UNCHANGED <<now, approval, issued, lastOp, configVars, pending, batcher, batch_log, debouncer, sent_log,
                   thread_state, pending_deny_reason, requests, co>>

\* TelegramBridge._handle_callback_query for a click on a button of request
\* request_id: suspended in query.answer()
HandleCallbackQuery(t, request_id, option) ==
    /\ CanStart
    /\ request_id \in requests.rendered
    /\ Started(Send(NewTask("handle_callback_query", t, option, <<>>, Carried(request_id),
                            "click"),
                    Msg("answer", <<>>), "click"))
    /\ UNCHANGED <<now, approval, issued, lastOp, configVars, pending, batcher, batch_log, debouncer, sent_log,
                   thread_state, pending_deny_reason, typing_tasks, requests>>

\* TelegramBridge._handle_callback_query after query.answer()
ResumeCallbackQuery(s, outcome) ==
    /\ Running(co[s])
    /\ co[s].next = "click"
    /\ IF outcome = "raise"
         THEN /\ co' = [co EXCEPT ![s] = Raised(co[s])]
              /\ UNCHANGED <<approval, issued, pending, pending_deny_reason>>
         ELSE LET r == callback_query(co[s], handlers, pending, approval,
                                      pending_deny_reason, now)
              IN  /\ co' = [co EXCEPT ![s] = r.task]
                  /\ pending' = r.pending
                  /\ approval' = r.approval
                  /\ issued' = IssuedAfter(issued, approval, r.approval, now)
                  /\ pending_deny_reason' = r.pending_deny_reason
    /\ UNCHANGED <<now, lastOp, ops, configVars, batcher, batch_log, debouncer, sent_log, thread_state,
                   typing_tasks, requests>>

\* TelegramBridge._handle_message
HandleMessage(t, text) ==
    /\ CanStart
    /\ LET r == handle_message(handlers, command_prefix, pending, approval,
                               pending_deny_reason, now, t, text)
       IN  /\ Started(r.task)
           /\ pending' = r.pending
           /\ approval' = r.approval
           /\ issued' = IssuedAfter(issued, approval, r.approval, now)
           /\ pending_deny_reason' = r.pending_deny_reason
    /\ UNCHANGED <<now, lastOp, configVars, batcher, batch_log, debouncer, sent_log, thread_state,
                   typing_tasks, requests>>

\* TelegramBridge.remove_thread: the typing task, then BridgeBase.remove_thread
TelegramRemoveThread(t) ==
    /\ ops < MaxCalls
    /\ ops' = ops + 1
    /\ typing_tasks' = typing_tasks \ {t}
    /\ Removed(t)
    /\ UNCHANGED <<now, lastOp, configVars, pending_deny_reason, requests, co>>

InitTelegram ==
    /\ now = 0
    /\ approval = NewEngine
    /\ issued = EmptyDict
    /\ lastOp = Op("init", NoThread, <<>>, None, {})
    /\ ops = 0
    /\ handlers \in {HandlersWith(TRUE), HandlersWith(FALSE)}
    /\ command_prefix = <<"/">>
    /\ subscriber = NewSubscriber
    /\ event_log = <<>>
    /\ pending = EmptyDict
    /\ batcher = NewBatcher
    /\ debouncer = NewDebouncer
    /\ thread_state = NewThreadState
    /\ pending_deny_reason = EmptyDict
    /\ typing_tasks = {}
    /\ requests = NoRequests
    /\ batch_log = NoBatchLog
    /\ sent_log = EmptyDict
    /\ co = [s \in Slots |-> IdleTask]

NextTelegram ==
    \/ \E d \in Directories : CreateThread(n_repo, d)
    \/ \E s \in Slots, outcome \in {"return", "raise"}, t \in Topics :
         ResumeCreateThread(s, outcome, t)
    \/ \E t \in Topics, status \in Statuses : SendStatus(t, status)
    \/ \E t \in Topics : SendTyping(t)
    \/ \E t \in Topics, x \in Tools : SendApprovalRequest(t, x)
    \/ \E t \in Topics : SendChoiceRequest(t, ChoiceOptions)
    \/ \E t \in Topics, r \in 1..MaxCalls, o \in Buttons : HandleCallbackQuery(t, r, o)
    \/ \E s \in Slots, outcome \in {"return", "raise"} : ResumeCallbackQuery(s, outcome)
    \/ \E t \in Topics, text \in Messages : HandleMessage(t, text)
    \/ \E t \in Topics : TelegramRemoveThread(t)
    \/ \E s \in Slots, outcome \in {"return", "reply", "raise"} : Resume(s, outcome)
    \/ \E s \in Slots, outcome \in {"return", "raise"} : ResumeAutoApprove(s, outcome)

SpecTelegram == InitTelegram /\ [][NextTelegram]_vars


-----------------------------------------------------------------------------
(* Vocabulary of the thread-removal claim *)

\* the components of BridgeBase hold no entry keyed by t
BasePurged(t) ==
    /\ t \notin DOMAIN pending
    /\ NoEntries(t)
    /\ t \notin DOMAIN batcher.buffer
    /\ t \notin DOMAIN batcher.tasks
    /\ t \notin DOMAIN debouncer.last_sent
    /\ t \notin DOMAIN thread_state.names

\* nor do the dictionaries of the Telegram bridge
Purged(t) ==
    /\ BasePurged(t)
    /\ t \notin typing_tasks
    /\ topic_id(t) \notin DOMAIN pending_deny_reason

-----------------------------------------------------------------------------
(* C7: when remove_thread(T) has completed, no component holds an entry     *)
(* keyed by T: no pending request, no grant of T, no directory association, *)
(* no batch buffer or flush timer, no debounce timestamp, no thread name,   *)
(* and nothing else that would make a thread reusing the id start otherwise *)
(* than Idle.                                                               *)
C7_RemoveThreadPurges ==
    [][\A t \in Topics : TelegramRemoveThread(t) => Purged(t)']_vars


-----------------------------------------------------------------------------
(* The resolution of approval replies: threads are created with or without  *)
(* a directory, permission requests are opened and answered by text.        *)

\* inbound replies to a permission request
x_allow_Bash == <<"a", "l", "l", "o", "w", " ", "B", "a", "s", "h">>
x_deny_why == <<"D", "e", "n", "y", ":", " ", "w", "h", "y">>

Replies == {w_allow_all, w_allow_dir, x_allow_Bash, x_yes, x_deny_why, w_no}

InitResolve ==
    /\ now = 0
    /\ approval = NewEngine
    /\ issued = EmptyDict
    /\ lastOp = Op("init", NoThread, <<>>, None, {})
    /\ ops = 0
    /\ handlers \in {HandlersWith(TRUE), HandlersWith(FALSE)}
    /\ command_prefix = <<"!">>
    /\ subscriber = NewSubscriber
    /\ event_log = <<>>
    /\ pending = EmptyDict
    /\ batcher = NewBatcher
    /\ debouncer = NewDebouncer
    /\ thread_state = NewThreadState
    /\ pending_deny_reason = EmptyDict
    /\ typing_tasks = {}
    /\ requests = NoRequests
    /\ batch_log = NoBatchLog
    /\ sent_log = EmptyDict
    /\ co = [s \in Slots |-> IdleTask]

NextResolve ==
    \/ \E d \in Directories : CreateThread(n_repo, d)
    \/ \E s \in Slots, outcome \in {"return", "raise"}, t \in Threads :
         ResumeCreateThread(s, outcome, t)
    \/ \E t \in Threads, x \in Tools : SendApprovalRequest(t, x)
    \/ \E t \in Threads, text \in Replies : DispatchMessage(t, text)
    \/ \E s \in Slots, outcome \in {"return", "reply", "raise"} : Resume(s, outcome)
    \/ \E s \in Slots, outcome \in {"return", "raise"} : ResumeAutoApprove(s, outcome)

SpecResolve == InitResolve /\ [][NextResolve]_vars


-----------------------------------------------------------------------------
(* Vocabulary of the resolution claims *)

\* the grants of the engine: scope -> expiry
GrantsOf(e) == [g \in Scopes(e) |-> ScopeExpiry(e, g)]

\* the scope an allow reply with a timer grants
TimerScope(e, t, timer) ==
    IF timer = w_all THEN <<"all", t>>
    ELSE IF timer = w_dir
      THEN IF t \in DOMAIN e.thread_directory
             THEN <<"dir", e.thread_directory[t]>>
             ELSE <<"all", t>>
    ELSE <<"tool", t, timer>>

\* a reply that the approval parser accepts arrives while a Permission is pending
ResolvesPermission(t, text) ==
    /\ DispatchMessage(t, text)
    /\ DictGet(pending, t, NoRequest).kind = "permission"
    /\ parse_approval_text(Strip(text)).matched

-----------------------------------------------------------------------------
(* C11: resolving an allow reply against a pending Permission writes        *)
(* exactly one grant, chosen by the timer: "all" the thread's allow-all     *)
(* grant; "dir" the grant of the thread's directory, or the allow-all grant *)
(* when the thread has no directory; any other timer text the tool grant of *)
(* (thread, that text); no timer, no grant.  The grant expires one duration *)
(* from now and nothing else in the engine changes.                         *)
C11_TimerGrant ==
    [][\A t \in Threads, text \in Replies :
         LET parsed == parse_approval_text(Strip(text)) IN
         ResolvesPermission(t, text) /\ parsed.allow
           => /\ approval'.thread_directory = approval.thread_directory
              /\ GrantsOf(approval') =
                   IF parsed.timer = None THEN GrantsOf(approval)
                   ELSE DictSet(GrantsOf(approval),
                                TimerScope(approval, t, parsed.timer), now + Duration)]_vars

\* "allow dir" was answered in a thread with a directory
C11_Witness ==
    /\ \E s \in DispatchTasks :
         /\ co[s].text = w_allow_dir
         /\ co[s].pend.kind = "permission"
         /\ co[s].thread \in DOMAIN approval.thread_directory
         /\ GrantsOf(approval) = (<<"dir", d_rs>> :> Duration)

\* "allow dir" in a thread without a directory gave the allow-all grant
C11_WitnessFallback ==
    \E s \in DispatchTasks :
      /\ co[s].text = w_allow_dir
      /\ co[s].pend.kind = "permission"
      /\ co[s].thread \notin DOMAIN approval.thread_directory
      /\ GrantsOf(approval) = (<<"all", co[s].thread>> :> Duration)

\* "allow Bash" answered a request for Task
C11_WitnessTool ==
    \E s \in DispatchTasks :
      /\ co[s].text = x_allow_Bash
      /\ co[s].pend.title = t_Task
      /\ GrantsOf(approval) = (<<"tool", co[s].thread, t_Bash>> :> Duration)


\* the dispatches of a reply the approval parser accepts, a Permission pending
PermissionReplies ==
    {s \in DispatchTasks : /\ co[s].pend.kind = "permission"
                           /\ parse_approval_text(Strip(co[s].text)).matched}

w_why == <<"w", "h", "y">>

-----------------------------------------------------------------------------
(* C12: resolving a parsed approval reply, allow or deny, with or without   *)
(* reason or timer, clears the thread's pending request in the same step    *)
(* (the thread is Idle), calls the approval callback once with (thread, the *)
(* pending request's id, allow, reason, timer) as parsed, and once the      *)
(* callback has returned sends the one confirmation.                        *)
C12_Resolution ==
    /\ [](\A s \in PermissionReplies :
            LET task == co[s]
                parsed == parse_approval_text(Strip(task.text))
                said == IF parsed.allow
                          THEN Msg("approved", IF parsed.timer = None THEN <<>> ELSE parsed.timer)
                          ELSE Msg("denied", IF parsed.reason = None THEN <<>> ELSE parsed.reason)
            IN  /\ task.calls = IF handlers.on_approval_response
                                  THEN <<ApprovalCall(task.thread, task.pend.request_id,
                                                      parsed.allow, parsed.reason, parsed.timer)>>
                                  ELSE <<>>
                /\ task.sent \in {<<>>, <<said>>}
                /\ task.st = "cb" => task.sent = <<>>
                /\ task.st \in {"send", "done"} => task.sent = <<said>>)
    /\ [][\A t \in Threads, text \in Replies :
            ResolvesPermission(t, text) => t \notin DOMAIN pending']_vars

\* "Deny: why" resolved a pending Permission: the callback was called with
\* the reason, the confirmation went out, nothing is pending
C12_Witness ==
    /\ handlers.on_approval_response
    /\ \E s \in PermissionReplies :
         /\ co[s].text = x_deny_why
         /\ co[s].st = "done"
         /\ co[s].calls = <<ApprovalCall(co[s].thread, co[s].pend.request_id, FALSE,
                                         w_why, None)>>
         /\ co[s].sent = <<Msg("denied", w_why)>>
         /\ co[s].thread \notin DOMAIN pending


\* the requests that found a live grant
AutoTasks == {s \in Slots : co[s].kind = "send_approval_request" /\ co[s].route = "auto"}

\* a request for tool x in thread t is opened while a grant covers it
AutoApproves(t, x) == SendApprovalRequest(t, x) /\ check(approval, t, x, now) # None

\* the label an approval call carries, in whichever argument
CallLabel(c) == IF c.reason # None THEN c.reason ELSE c.timer

\* the batch of thread t with one more item
BufferWith(t, item) ==
    DictSet(batcher.buffer, t, Append(DictGet(batcher.buffer, t, <<>>), item))

-----------------------------------------------------------------------------
(* C13: a permission request that finds a live grant is not rendered and    *)
(* does not become the thread's pending request; the approval callback is   *)
(* called once with approved = true for the request's id; and, the callback *)
(* having returned, exactly one item (tool, grant label) is appended to the *)
(* thread's notification batch.                                             *)
C13_AutoApprove ==
    /\ [](\A s \in AutoTasks :
            /\ co[s].sent = <<>>
            /\ co[s].pend.request_id \notin requests.rendered
            /\ \A t \in DOMAIN pending : pending[t].request_id # co[s].pend.request_id
            /\ co[s].calls = IF handlers.on_approval_response
                               THEN <<[co[s].calls[1] EXCEPT
                                         !.cb = "on_approval_response",
                                         !.thread = co[s].thread,
                                         !.request_id = co[s].pend.request_id,
                                         !.approved = TRUE]>>
                               ELSE <<>>)
    /\ [][\A t \in Threads, x \in Tools :
            AutoApproves(t, x)
              => /\ pending' = pending /\ requests' = requests
                 /\ co'[Slot].route = "auto" /\ co'[Slot].pend.request_id = ops + 1
                 /\ IF handlers.on_approval_response
                      THEN /\ batcher' = batcher
                           /\ co'[Slot].st = "cb"
                           /\ CallLabel(co'[Slot].calls[1]) = check(approval, t, x, now)
                      ELSE batcher'.buffer = BufferWith(t, <<x, check(approval, t, x, now)>>)]_vars
    /\ [][\A s \in Slots :
            ResumeAutoApprove(s, "return")
              => /\ batcher'.buffer = BufferWith(co[s].thread,
                                                 <<co[s].pend.title, CallLabel(co[s].calls[1])>>)
                 /\ pending' = pending /\ requests' = requests]_vars

\* a request for Bash was approved by the allow-all grant of its thread: the
\* callback returned, the batch of the thread holds the one item, nothing is
\* pending
C13_Witness ==
    /\ handlers.on_approval_response
    /\ \E s \in AutoTasks :
         /\ co[s].st = "done"
         /\ co[s].pend.title = t_Bash
         /\ Len(co[s].calls) = 1 /\ co[s].calls[1].approved
         /\ DictGet(batcher.buffer, co[s].thread, <<>>) = <<<<t_Bash, s_Allow_All>>>>
         /\ co[s].thread \notin DOMAIN pending

-----------------------------------------------------------------------------
(* C14: when a permission request is auto-approved, the approval callback   *)
(* is called with approved = true and the grant label as its reason         *)
(* argument.                                                                *)
C14_LabelAsReason ==
    [][\A t \in Threads, x \in Tools :
         AutoApproves(t, x) /\ handlers.on_approval_response
           => /\ co'[Slot].calls[1].approved
              /\ co'[Slot].calls[1].reason = check(approval, t, x, now)]_vars


-----------------------------------------------------------------------------
(* C15: send_choice_request does not consult the permission engine:         *)
(* whatever the grants, a live allow-all grant of the thread included, it   *)
(* stores a Choice as the thread's pending request and renders it, calls no *)
(* supervisor callback and adds nothing to the notification batch.          *)
C15_ChoiceUnconditional ==
    /\ [][\A t \in Threads :
            SendChoiceRequest(t, ChoiceOptions)
              => /\ t \in DOMAIN pending'
                 /\ pending'[t] = ApprovalRequest("choice", ops + 1, <<>>, ChoiceOptions)
                 /\ ops + 1 \in requests'.rendered
                 /\ co'[Slot].sent = <<Msg("choice", <<>>)>>
                 /\ co'[Slot].calls = <<>>
                 /\ batcher' = batcher
                 /\ approval' = approval]_vars
    /\ [](\A s \in Slots : co[s].kind = "send_choice_request" => co[s].calls = <<>>)

\* a Choice was opened, and is pending, in a thread whose allow-all grant is
\* live
C15_Witness ==
    \E s \in Slots :
      /\ co[s].kind = "send_choice_request"
      /\ DictGet(pending, co[s].thread, NoRequest) = co[s].pend
      /\ co[s].pend.kind = "choice"
      /\ check(approval, co[s].thread, t_Bash, now) = s_Allow_All


\* the callback that coroutine s awaits raises
CallbackRaises(s, route) ==
    /\ Resume(s, "raise")
    /\ co[s].st = "cb"
    /\ co[s].kind = "dispatch_message"
    /\ co[s].route = route

-----------------------------------------------------------------------------
(* C17: when a command handler called during dispatch raises, a registered  *)
(* command's handler or the catch-all handler, the failure is caught, a     *)
(* failure message is sent to the thread, and the dispatch does not raise.  *)
C17_CommandFailure ==
    [][\A s \in Slots :
         CallbackRaises(s, "command")
           => /\ co'[s].st = "send"
              /\ co'[s].sent = Append(co[s].sent,
                                      Msg("command_failed", co[s].calls[Len(co[s].calls)].text))]_vars

-----------------------------------------------------------------------------
(* C18: when the input callback raises during the dispatch of a plain-input *)
(* message, the failure is caught in the dispatcher (the dispatch does not  *)
(* raise) and the thread's pending request and the grants are as before the *)
(* message.                                                                 *)
C18_InputFailure ==
    [][\A s \in Slots :
         CallbackRaises(s, "input")
           => /\ co'[s].st # "raised"
              /\ pending' = pending
              /\ approval' = approval]_vars


\* the dispatches that resolve a pending request
Resolutions == {s \in DispatchTasks : co[s].route \in {"choice", "permission"}}

\* the transport fails to send the confirmation of resolution s
ConfirmationFails(s) ==
    /\ s \in Resolutions
    /\ co[s].st = "send"
    /\ Resume(s, "raise")

\* the resolutions whose confirmation could not be sent
FailedConfirmations == {s \in Resolutions : co[s].st = "raised" /\ co[s].sent # <<>>}

-----------------------------------------------------------------------------
(* C19: when the transport fails to send the confirmation of a permission   *)
(* or choice reply, the resolution stays recorded: the failure changes      *)
(* neither the pending requests nor the grants, the approval callback has   *)
(* been called exactly once, and the resolved request is not pending.       *)
C19_FailedConfirmation ==
    /\ [][\A s \in Slots :
            ConfirmationFails(s)
              => /\ pending' = pending
                 /\ approval' = approval
                 /\ batcher' = batcher
                 /\ co'[s].calls = co[s].calls
                 /\ co[s].thread \notin DOMAIN pending
                    \/ pending[co[s].thread].request_id # co[s].pend.request_id]_vars
    /\ [](\A s \in Resolutions :
            /\ co[s].st \in {"send", "done"} \/ s \in FailedConfirmations
                 => Len(co[s].calls) = IF handlers.on_approval_response THEN 1 ELSE 0
            /\ \A t \in DOMAIN pending : pending[t].request_id # co[s].pend.request_id)

\* the confirmation of "allow all" could not be sent: the allow-all grant is
\* there, the callback was called once, nothing is pending for the thread
C19_Witness ==
    \E s \in FailedConfirmations :
      /\ co[s].route = "permission"
      /\ co[s].text = w_allow_all
      /\ Len(co[s].calls) = 1
      /\ <<"all", co[s].thread>> \in DOMAIN GrantsOf(approval)
      /\ co[s].thread \notin DOMAIN pending

\* the confirmation of a selected option could not be sent
C19_WitnessChoice ==
    \E s \in FailedConfirmations :
      /\ co[s].route = "choice"
      /\ Len(co[s].calls) = 1
      /\ co[s].thread \notin DOMAIN pending


-----------------------------------------------------------------------------
(* The command lines: a bridge with the built-in commands and the custom    *)
(* command "run", texts that start with the prefix, and a Choice one of     *)
(* whose options is a command line                                          *)

x_bang == <<"!">>
x_Run_a_b == <<"!", "R", "u", "n", " ", " ", "a", " ", "b">>
x_STATUS == <<"!", "S", "T", "A", "T", "U", "S">>
x_sp_foo_x == <<"!", " ", "f", "o", "o", " ", "x", " ">>

CommandTexts == {x_bang, x_Run_a_b, x_STATUS, x_sp_foo_x, x_help, x_foo, x_hi}

NextCommands ==
    \/ \E t \in Threads : SendChoiceRequest(t, ChoiceOptions)
    \/ \E t \in Threads, text \in CommandTexts : DispatchMessage(t, text)
    \/ \E s \in Slots, outcome \in {"return", "reply", "raise"} : Resume(s, outcome)

SpecCommands == InitBridge /\ [][NextCommands]_vars

\* the first whitespace-delimited word after the prefix, case-folded, and the
\* rest, of each command line
a_b == <<"a", " ", "b">>
w_foo == <<"f", "o", "o">>
w_x == <<"x">>
NameAndArgs(text) ==
    LET line == Strip(text) IN
    CASE line = x_bang -> [name |-> <<>>, args |-> <<>>]
      [] line = x_Run_a_b -> [name |-> w_run, args |-> a_b]
      [] line = x_STATUS -> [name |-> w_status, args |-> <<>>]
      [] line = Strip(x_sp_foo_x) -> [name |-> w_foo, args |-> w_x]
      [] line = x_help -> [name |-> w_help, args |-> <<>>]
      [] line = x_foo -> [name |-> w_foo, args |-> <<>>]

\* the dispatches of a text that starts with the prefix and that the pending
\* request does not consume
CommandLines ==
    {s \in DispatchTasks :
       /\ StartsWith(Strip(co[s].text), command_prefix)
       /\ ~(co[s].pend.kind = "choice" /\ MatchIndex(co[s].pend.options, Strip(co[s].text)) > 0)
       /\ ~(co[s].pend.kind = "permission" /\ parse_approval_text(Strip(co[s].text)).matched)}

CallsOf(task, cbs) == {i \in 1..Len(task.calls) : task.calls[i].cb \in cbs}
SentOf(task, tags) == {i \in 1..Len(task.sent) : task.sent[i].tag \in tags}

\* the one outcome of command line s: the registered handler of the name, else
\* the catch-all handler, else the unknown-command reply; never the input
\* callback
CommandOutcome(s) ==
    LET task == co[s]
        c == NameAndArgs(task.text)
    IN  /\ CallsOf(task, {"on_input", "on_approval_response"}) = {}
        /\ IF c.name \in CustomCommands
             THEN /\ task.calls = <<CommandCall("handler", task.thread, c.name, c.args)>>
                  /\ SentOf(task, {"unknown_command"}) = {}
           ELSE IF c.name \in Commands
             THEN /\ CallsOf(task, {"handler", "on_command"}) = {}
                  /\ SentOf(task, {"unknown_command"}) = {}
           ELSE IF handlers.on_command
             THEN /\ task.calls = <<CommandCall("on_command", task.thread, c.name, c.args)>>
                  /\ SentOf(task, {"unknown_command"}) = {}
           ELSE /\ task.calls = <<>>
                /\ task.sent = <<Msg("unknown_command", c.name)>>

-----------------------------------------------------------------------------
(* C16 as stated: every text that starts with the command prefix and is not *)
(* consumed by a pending request has exactly one of the three outcomes.     *)
C16_Original == \A s \in CommandLines : CommandOutcome(s)

(* C16: for a text that starts with the command prefix, is not consumed by  *)
(* a pending request and has a word after the prefix, the command name is   *)
(* that first word case-folded and the args are the rest; the registered    *)
(* handler of the name is called with (thread, args), else the catch-all    *)
(* handler if configured, else the unknown-command reply is sent: exactly   *)
(* one of the three, and the input callback is not called.                  *)
C16_CommandDispatch ==
    \A s \in CommandLines : NameAndArgs(co[s].text).name # <<>> => CommandOutcome(s)

\* "!Run  a b" reached the handler registered as "run" with the args "a b",
\* while "! foo x " went to the catch-all handler
C16_Witness ==
    \E s1, s2 \in CommandLines :
      /\ co[s1].text = x_Run_a_b
      /\ co[s1].calls = <<CommandCall("handler", co[s1].thread, w_run, a_b)>>
      /\ Strip(co[s2].text) = Strip(x_sp_foo_x)
      /\ co[s2].calls = <<CommandCall("on_command", co[s2].thread, w_foo, w_x)>>

\* "!help" typed while a Choice with that option is pending is consumed by it
C16_WitnessConsumed ==
    \E s \in DispatchTasks \ CommandLines :
      co[s].text = x_help /\ co[s].route = "choice"


-----------------------------------------------------------------------------
(* NotificationBatcher with its clock: adds, the timers' expiry, removals   *)

\* the clock runs 0 .. MaxClock
MaxClock == MaxCalls * FlushDelay

\* NotificationBatcher.add
BatcherAdd(t, x) ==
    /\ ops < MaxCalls
    /\ now + FlushDelay <= MaxClock
    /\ batcher' = batcher_add(batcher, t, x, s_Allow_All, now)
    /\ batch_log' = LogAdd(batch_log, t, <<x, s_Allow_All>>, now)
    /\ ops' = ops + 1
    /\ UNCHANGED <<now, approval, issued, lastOp, configVars, pending, debouncer, sent_log,
                   thread_state, pending_deny_reason, typing_tasks, requests, co>>

\* NotificationBatcher._flush_after_delay when its sleep has ended
FlushAfterDelay(t) ==
    /\ t \in DOMAIN batcher.tasks
    /\ batcher.tasks[t] <= now
    /\ LET r == flush_after_delay(batcher, t)
       IN  /\ batcher' = r.batcher
           /\ batch_log' = IF r.items # <<>>
                             THEN LogFlush(batch_log, t, r.items, now)
                             ELSE batch_log
    /\ UNCHANGED <<now, approval, issued, lastOp, ops, configVars, pending, debouncer, sent_log,
                   thread_state, pending_deny_reason, typing_tasks, requests, co>>

\* NotificationBatcher.remove_thread
BatcherRemoveThread(t) ==
    /\ ops < MaxCalls
    /\ batcher' = batcher_remove_thread(batcher, t)
    /\ batch_log' = LogRemove(batch_log, t)
    /\ ops' = ops + 1
    /\ UNCHANGED <<now, approval, issued, lastOp, configVars, pending, debouncer, sent_log,
                   thread_state, pending_deny_reason, typing_tasks, requests, co>>

\* time passes, but not beyond the end of a sleep
TickBatcher ==
    /\ now < MaxClock
    /\ \A t \in DOMAIN batcher.tasks : now < batcher.tasks[t]
    /\ now' = now + 1
    /\ UNCHANGED <<approval, issued, lastOp, ops, configVars, bridgeVars>>

InitBatcher ==
    /\ now = 0
    /\ approval = NewEngine
    /\ issued = EmptyDict
    /\ lastOp = Op("init", NoThread, <<>>, None, {})
    /\ ops = 0
    /\ handlers = HandlersWith(TRUE)
    /\ command_prefix = <<"!">>
    /\ subscriber = NewSubscriber
    /\ event_log = <<>>
    /\ pending = EmptyDict
    /\ batcher = NewBatcher
    /\ debouncer = NewDebouncer
    /\ thread_state = NewThreadState
    /\ pending_deny_reason = EmptyDict
    /\ typing_tasks = {}
    /\ requests = NoRequests
    /\ batch_log = NoBatchLog
    /\ sent_log = EmptyDict
    /\ co = [s \in Slots |-> IdleTask]

NextBatcher ==
    \/ \E t \in Threads, x \in Tools : BatcherAdd(t, x)
    \/ \E t \in Threads : FlushAfterDelay(t)
    \/ \E t \in Threads : BatcherRemoveThread(t)
    \/ TickBatcher

\* the event loop runs a task whose sleep has ended, and time passes
SpecBatcher ==
    /\ InitBatcher /\ [][NextBatcher]_vars
    /\ WF_vars(TickBatcher)
    /\ \A t \in Threads : WF_vars(FlushAfterDelay(t))

\* the adds of thread t that are waiting for their flush
Waiting(t) == DictGet(batch_log.adds, t, <<>>)

\* the timer of thread t, -1 when it has none
TimerOf(b, t) == IF t \in DOMAIN b.tasks THEN b.tasks[t] ELSE -1

-----------------------------------------------------------------------------
(* C20: the adds of a thread that follow one another by less than the flush *)
(* delay produce one call of the flush callback for the thread, one flush   *)
(* delay after the last add, with all their items in the order added; the   *)
(* flush of a thread carries only that thread's items; and an add for one   *)
(* thread leaves the timer and the items of every other thread as they are. *)
C20_Batching ==
    /\ [][\A t \in Threads :
            FlushAfterDelay(t)
              => /\ Waiting(t) # <<>>
                 /\ now = Waiting(t)[Len(Waiting(t))].at + FlushDelay
                 /\ batch_log'.flushes =
                      Append(batch_log.flushes,
                             [thread |-> t,
                              items |-> [i \in 1..Len(Waiting(t)) |-> Waiting(t)[i].item],
                              at |-> now])
                 /\ t \notin DOMAIN batch_log'.adds]_vars
    /\ [][batch_log'.flushes # batch_log.flushes => \E t \in Threads : FlushAfterDelay(t)]_vars
    /\ [][\A t \in Threads, x \in Tools :
            BatcherAdd(t, x)
              => \A u \in Threads \ {t} :
                   /\ TimerOf(batcher', u) = TimerOf(batcher, u)
                   /\ DictGet(batcher'.buffer, u, <<>>) = DictGet(batcher.buffer, u, <<>>)]_vars
    /\ \A t \in Threads : (Waiting(t) # <<>>) ~> (Waiting(t) = <<>>)

\* two adds for t1 one tick apart were flushed together, one delay after the
\* second, and the add for t2 was flushed on its own
C20_Witness ==
    \E i, j \in 1..Len(batch_log.flushes) :
      /\ batch_log.flushes[i].thread = "t1"
      /\ batch_log.flushes[i].items = <<<<t_Bash, s_Allow_All>>, <<t_Task, s_Allow_All>>>>
      /\ batch_log.flushes[i].at = 1 + FlushDelay
      /\ batch_log.flushes[j].thread = "t2"
      /\ Len(batch_log.flushes[j].items) = 1

\* three adds for one thread, each one tick after the previous, one flush
C20_WitnessBurst ==
    /\ Len(batch_log.flushes) = 1
    /\ Len(batch_log.flushes[1].items) = 3
    /\ batch_log.flushes[1].at = 2 + FlushDelay


\* the items of a sequence of logged adds
ItemsOf(adds) == [i \in 1..Len(adds) |-> adds[i].item]

-----------------------------------------------------------------------------
(* C21: remove_thread cancels the thread's flush timer and discards its     *)
(* buffer: the step calls no flush callback and leaves the thread without   *)
(* timer and without buffer; a later flush carries only the items added     *)
(* after the removal, so no discarded item is ever flushed; a timer exists  *)
(* only for a thread with items waiting; and the flush callback is never    *)
(* called with an empty list.                                               *)
C21_RemoveDiscards ==
    /\ [][\A t \in Threads :
            BatcherRemoveThread(t)
              => /\ TimerOf(batcher', t) = -1
                 /\ t \notin DOMAIN batcher'.buffer
                 /\ batch_log'.flushes = batch_log.flushes]_vars
    /\ [][\A t \in Threads :
            FlushAfterDelay(t)
              => LET calls == batch_log'.flushes
                 IN  /\ Len(calls) = Len(batch_log.flushes) + 1
                     /\ calls[Len(calls)].thread = t
                     /\ calls[Len(calls)].items = ItemsOf(Waiting(t))]_vars
    /\ [](\A t \in Threads :
            /\ t \in DOMAIN batcher.tasks => Waiting(t) # <<>>
            /\ DictGet(batcher.buffer, t, <<>>) = ItemsOf(Waiting(t)))
    /\ [](\A i \in 1..Len(batch_log.flushes) : batch_log.flushes[i].items # <<>>)

\* the Bash item of t1 was discarded by remove_thread; the Task item added
\* afterwards was flushed alone
C21_Witness ==
    /\ batch_log.dropped = <<[thread |-> "t1",
                              adds |-> <<[item |-> <<t_Bash, s_Allow_All>>, at |-> 0]>>]>>
    /\ Len(batch_log.flushes) = 1
    /\ batch_log.flushes[1].thread = "t1"
    /\ batch_log.flushes[1].items = <<<<t_Task, s_Allow_All>>>>


-----------------------------------------------------------------------------
(* ErrorDebouncer with its clock, for an interval that disables it and one  *)
(* that does not                                                            *)

Intervals == {-1, 0, 2}

\* ErrorDebouncer.should_send
ShouldSend(t) ==
    /\ ops < MaxCalls + 1
    /\ debouncer' = after_should_send(debouncer, t, now)
    /\ sent_log' = LogShouldSend(sent_log, t, should_send(debouncer, t, now), now)
    /\ ops' = ops + 1
    /\ UNCHANGED <<now, approval, issued, lastOp, configVars, pending, batcher, batch_log,
                   thread_state, pending_deny_reason, typing_tasks, requests, co>>

\* ErrorDebouncer.remove_thread
DebouncerRemoveThread(t) ==
    /\ ops < MaxCalls + 1
    /\ debouncer' = debouncer_remove_thread(debouncer, t)
    /\ sent_log' = DictPop(sent_log, t)
    /\ ops' = ops + 1
    /\ UNCHANGED <<now, approval, issued, lastOp, configVars, pending, batcher, batch_log,
                   thread_state, pending_deny_reason, typing_tasks, requests, co>>

InitDebounce ==
    /\ now = 0
    /\ approval = NewEngine
    /\ issued = EmptyDict
    /\ lastOp = Op("init", NoThread, <<>>, None, {})
    /\ ops = 0
    /\ handlers = HandlersWith(TRUE)
    /\ command_prefix = <<"!">>
    /\ subscriber = NewSubscriber
    /\ event_log = <<>>
    /\ pending = EmptyDict
    /\ batcher = NewBatcher
    /\ debouncer \in {Debouncer(s) : s \in Intervals}
    /\ thread_state = NewThreadState
    /\ pending_deny_reason = EmptyDict
    /\ typing_tasks = {}
    /\ requests = NoRequests
    /\ batch_log = NoBatchLog
    /\ sent_log = EmptyDict
    /\ co = [s \in Slots |-> IdleTask]

NextDebounce ==
    \/ \E t \in Threads : ShouldSend(t)
    \/ \E t \in Threads : DebouncerRemoveThread(t)
    \/ Tick

SpecDebounce == InitDebounce /\ [][NextDebounce]_vars

\* the calls of should_send for thread t
SentCalls(t) == DictGet(sent_log, t, <<>>)

\* some earlier call for t returned true less than one interval ago
SentRecently(t) ==
    \E i \in 1..Len(SentCalls(t)) :
      SentCalls(t)[i].result /\ now - SentCalls(t)[i].at < debouncer.debounce_s

LastSent(d, t) == IF t \in DOMAIN d.last_sent THEN d.last_sent[t] ELSE -1

-----------------------------------------------------------------------------
(* C22: should_send(T) returns true on every call when the interval is <= 0 *)
(* and otherwise exactly when no earlier call for T returned true less than *)
(* one interval ago; a true result records now as T's last-sent time in the *)
(* same step and a false result leaves it unchanged; so two true results    *)
(* for T are at least one interval apart, and the other threads' last-sent  *)
(* times are unaffected.                                                    *)
C22_Debounce ==
    /\ [][\A t \in Threads :
            ShouldSend(t)
              => LET calls == sent_log'[t]
                     result == calls[Len(calls)].result
                 IN  /\ result = (debouncer.debounce_s <= 0 \/ ~SentRecently(t))
                     /\ debouncer.debounce_s > 0 /\ result => LastSent(debouncer', t) = now
                     /\ ~result => debouncer' = debouncer
                     /\ \A u \in Threads \ {t} :
                          LastSent(debouncer', u) = LastSent(debouncer, u)]_vars
    /\ [](debouncer.debounce_s > 0
            => \A t \in Threads : \A i, j \in 1..Len(SentCalls(t)) :
                 i < j /\ SentCalls(t)[i].result /\ SentCalls(t)[j].result
                   => SentCalls(t)[j].at - SentCalls(t)[i].at >= debouncer.debounce_s)

\* with an interval of two ticks: sent at 0, held back at 1, sent again at 2,
\* while the other thread was sent at 1
C22_Witness ==
    /\ debouncer.debounce_s = 2
    /\ SentCalls("t1") = <<[at |-> 0, result |-> TRUE], [at |-> 1, result |-> FALSE],
                           [at |-> 2, result |-> TRUE]>>
    /\ SentCalls("t2") = <<[at |-> 1, result |-> TRUE]>>

\* with the debouncer disabled, two calls at the same time both returned true
C22_WitnessDisabled ==
    /\ debouncer.debounce_s = 0
    /\ SentCalls("t1") = <<[at |-> 0, result |-> TRUE], [at |-> 0, result |-> TRUE]>>


-----------------------------------------------------------------------------
(* ThreadState: names allocated, registered under new thread ids as         *)
(* create_thread registers them, unregistered, and reloaded from the file   *)

n_repo_2 == <<"R", "e", "p", "o", " ", "2">>
n_repo_sp == <<"R", "e", "p", "o", " ">>
n_reports == <<"R", "e", "p", "o", "r", "t", "s">>

\* base names asked for, and names registered
BaseNames == {n_repo, n_reports, x_blank}
Names == {n_repo, n_repo_2, n_repo_sp}

\* ThreadState.allocate_name
RegistryAllocate(base) ==
    /\ lastOp' = Op("allocate_name", NoThread, base, allocate_name(thread_state, base), {})
    /\ UNCHANGED <<now, approval, issued, ops, configVars, bridgeVars>>

\* ThreadState.register, for a thread id the platform has just created
RegistryRegister(t, name) ==
    /\ t \notin DOMAIN thread_state.names
    /\ thread_state' = register(thread_state, t, name)
    /\ lastOp' = Op("register", t, name, None, {})
    /\ UNCHANGED <<now, approval, issued, ops, configVars, pending, batcher, batch_log,
                   debouncer, sent_log, pending_deny_reason, typing_tasks, requests, co>>

\* ThreadState.unregister
RegistryUnregister(t) ==
    /\ thread_state' = unregister(thread_state, t)
    /\ lastOp' = Op("unregister", t, <<>>, None, {})
    /\ UNCHANGED <<now, approval, issued, ops, configVars, pending, batcher, batch_log,
                   debouncer, sent_log, pending_deny_reason, typing_tasks, requests, co>>

\* the process restarts: BridgeBase._thread_state builds the registry anew
RegistryRestart ==
    /\ thread_state' = reloaded(thread_state)
    /\ lastOp' = Op("load", NoThread, <<>>, None, {})
    /\ UNCHANGED <<now, approval, issued, ops, configVars, pending, batcher, batch_log,
                   debouncer, sent_log, pending_deny_reason, typing_tasks, requests, co>>

NextRegistry ==
    \/ \E base \in BaseNames : RegistryAllocate(base)
    \/ \E t \in Threads, name \in Names : RegistryRegister(t, name)
    \/ \E t \in Threads : RegistryUnregister(t)
    \/ RegistryRestart

SpecRegistry == InitBatcher /\ [][NextRegistry]_vars

\* the names that registered threads hold
Held == {thread_state.names[t] : t \in DOMAIN thread_state.names}

\* base with the suffix " k"
Suffixed(base, k) == base \o <<" ">> \o StrOf(k)

\* the base name when no registered thread holds it, else the suffixed name of
\* the lowest number that no registered thread holds
FreeName(base) ==
    IF base \notin Held THEN base
    ELSE Suffixed(base, CHOOSE k \in 2..99 :
                          /\ Suffixed(base, k) \notin Held
                          /\ \A j \in 2..(k - 1) : Suffixed(base, j) \in Held)

-----------------------------------------------------------------------------
(* C23: allocate_name returns the base name when no registered thread holds *)
(* it and otherwise the lowest-numbered free suffixed name; so "Repo" is    *)
(* given as "Repo", then as "Repo 2", and as "Repo" again once the thread   *)
(* that held "Repo" is unregistered.                                        *)
C23_AllocateName ==
    [][RegistryAllocate(n_repo) => lastOp'.res = FreeName(n_repo)]_vars

\* the scenario of the claim in one state: "Repo 2" is still held, "Repo" was
\* unregistered, and allocate_name("Repo") answered "Repo"
C23_Scenario ==
    /\ lastOp = Op("allocate_name", NoThread, n_repo, n_repo, {})
    /\ Held = {n_repo_2}
    /\ thread_state.used_names = {n_repo_2}


-----------------------------------------------------------------------------
(* C24: in every state reached through create_thread, register, unregister  *)
(* and load, no two thread ids of the name map have the same display name   *)
(* and every display name is at most the configured maximum length.         *)
C24_UniqueBoundedNames ==
    \A t1, t2 \in DOMAIN thread_state.names :
      /\ t1 # t2 => thread_state.names[t1] # thread_state.names[t2]
      /\ Len(thread_state.names[t1]) <= MaxNameLen

-----------------------------------------------------------------------------
(* C25: register and unregister write the whole name map to the document    *)
(* before they return, so that after any sequence of calls a fresh registry *)
(* that loads the document holds exactly the map held in memory.            *)
C25_WriteThrough ==
    /\ [](reloaded(thread_state).names = thread_state.names)
    /\ [][\A t \in Threads, name \in Names :
            RegistryRegister(t, name) => thread_state'.file = thread_state'.names]_vars
    /\ [][\A t \in Threads :
            RegistryUnregister(t) => thread_state'.file = thread_state'.names]_vars

-----------------------------------------------------------------------------
(* SpecParse: the two reply parsers as pure functions.  Init draws a reply, *)
(* built from a keyword, a letter case, a separator, a remainder and        *)
(* padding, and each action applies one parser to it and records the result *)
(* in lastOp.                                                               *)

w_banana == <<"b", "a", "n", "a", "n", "a">>
w_All == <<"A", "l", "l">>
w_too_risky == <<"t", "o", "o", " ", "r", "i", "s", "k", "y">>

UpperLetters ==
    {"A", "B", "C", "D", "E", "F", "G", "H", "I", "J", "K", "L", "M", "N", "O", "P", "Q",
     "R", "S", "T", "U", "V", "W", "X", "Y", "Z"}

Upper(c) ==
    IF \E u \in UpperLetters : Lower(u) = c /\ u # c
      THEN CHOOSE u \in UpperLetters : Lower(u) = c
      ELSE c

UpperStr(s) == [i \in 1..Len(s) |-> Upper(s[i])]

AllowWords == {w_proceed, w_continue, w_start, w_go, w_ok, w_okay, w_allow, w_approve, w_yes}
DenyWords == {w_cancel, w_stop, w_abort, w_deny, w_reject, w_no}
Keywords == AllowWords \cup DenyWords \cup {w_banana}
LetterCases == {"lower", "upper", "capital"}
Separators == {<<>>, <<" ">>, <<" ", " ">>, <<":">>, <<":", " ">>}
Remainders == {<<>>, w_all, w_All, w_dir, t_Bash, w_too_risky}
Paddings == {<<>>, <<" ">>}

ApprovalInputs ==
    [kw : Keywords, case : LetterCases, sep : Separators, rest : Remainders, pad : Paddings]

InCase(word, case) ==
    CASE case = "upper" -> UpperStr(word)
      [] case = "capital" -> <<Upper(Head(word))>> \o Tail(word)
      [] OTHER -> word

\* the reply an input stands for
ApprovalText(i) == i.pad \o InCase(i.kw, i.case) \o i.sep \o i.rest \o i.pad

ParseApprovalText ==
    /\ lastOp.op = "approval_text"
    /\ lastOp' = Op("parse_approval_text", NoThread, lastOp.arg,
                    parse_approval_text(ApprovalText(lastOp.arg)), {})
    /\ UNCHANGED <<now, approval, issued, ops, configVars, bridgeVars>>

o_Yes == <<"Y", "e", "s">>
o_No == <<"N", "o">>
o_2 == <<"2">>
o_3 == <<"3">>
o_0 == <<"0">>
o_Squared == <<SuperscriptTwo>>

OptionLists == {<<>>, <<o_Yes, o_No>>, <<o_2, o_Yes>>, <<o_3, o_0>>, <<o_Squared, o_No>>}
ReplyTexts ==
    {<<"1">>, <<"2">>, <<"3">>, <<"0">>, <<"0", "1">>, <<"1", "2">>, <<" ", "2", " ">>,
     w_yes, UpperStr(w_yes), o_Yes, <<" ">> \o w_no \o <<" ">>, w_banana, <<>>,
     o_Squared, <<"1", SuperscriptTwo>>}
PendingKinds == {"choice", "permission", "none"}

ChoiceInputs == [options : OptionLists, reply : ReplyTexts, kind : PendingKinds]

\* _pending as the parser finds it: t1 waits for an answer of the given kind
PendingFor(i) ==
    IF i.kind = "none" THEN EmptyDict
    ELSE DictSet(EmptyDict, "t1", ApprovalRequest(i.kind, 1, <<>>, i.options))

ParseChoiceText ==
    /\ lastOp.op = "choice_text"
    /\ lastOp' = Op("parse_choice_text", "t1", lastOp.arg,
                    parse_choice_text(pending, "t1", lastOp.arg.reply), {})
    /\ UNCHANGED <<now, approval, issued, ops, configVars, bridgeVars>>

InitParse ==
    /\ now = 0
    /\ approval = NewEngine
    /\ issued = EmptyDict
    /\ ops = 0
    /\ handlers = HandlersWith(TRUE)
    /\ command_prefix = <<"!">>
    /\ subscriber = NewSubscriber
    /\ event_log = <<>>
    /\ batcher = NewBatcher
    /\ debouncer = NewDebouncer
    /\ thread_state = NewThreadState
    /\ pending_deny_reason = EmptyDict
    /\ typing_tasks = {}
    /\ requests = NoRequests
    /\ batch_log = NoBatchLog
    /\ sent_log = EmptyDict
    /\ co = [s \in Slots |-> IdleTask]
    /\ \/ \E i \in ApprovalInputs :
            /\ lastOp = Op("approval_text", NoThread, i, None, {})
            /\ pending = EmptyDict
       \/ \E i \in ChoiceInputs :
            /\ lastOp = Op("choice_text", "t1", i, None, {})
            /\ pending = PendingFor(i)

NextParse ==
    \/ ParseApprovalText
    \/ ParseChoiceText

SpecParse == InitParse /\ [][NextParse]_vars

-----------------------------------------------------------------------------
(* The reply grammar as the specification states it, on the parts of a reply *)

Spaces == {<<>>, <<" ">>, <<" ", " ">>}

\* the result the ten rules give a keyword followed by a separator and a remainder
ExpectedApproval(kw, sep, rest) ==
    IF rest = <<>> /\ sep \in Spaces
      THEN IF kw \in AllowWords THEN Parsed(TRUE, None, None)
           ELSE IF kw \in DenyWords THEN Parsed(FALSE, None, None)
           ELSE NotParsed
    ELSE IF rest # <<>> /\ sep \in Spaces \ {<<>>} /\ kw = w_allow
      THEN Parsed(TRUE, None,
                  IF sep = <<" ">> /\ LowerStr(rest) \in {w_all, w_dir}
                    THEN LowerStr(rest) ELSE rest)
    ELSE IF rest # <<>> /\ sep \in Spaces \ {<<>>} /\ kw \in {w_deny, w_reject}
      THEN Parsed(FALSE, rest, None)
    ELSE IF sep \notin Spaces /\ kw \in {w_deny, w_reject, w_no}
      THEN Parsed(FALSE, IF rest = <<>> THEN None ELSE rest, None)
    ELSE NotParsed

\* the examples the specification lists: a reply and its result
ApprovalExamples ==
    {<<w_allow, Parsed(TRUE, None, None)>>,
     <<w_deny, Parsed(FALSE, None, None)>>,
     <<w_deny \o <<":", " ">> \o w_too_risky, Parsed(FALSE, w_too_risky, None)>>,
     <<w_allow_all, Parsed(TRUE, None, w_all)>>,
     <<w_allow \o <<" ">> \o t_Bash, Parsed(TRUE, None, t_Bash)>>,
     <<w_proceed, Parsed(TRUE, None, None)>>,
     <<w_cancel, Parsed(FALSE, None, None)>>,
     <<w_banana, NotParsed>>}

ParsedApproval == lastOp.op = "parse_approval_text"

\* C26: the approval parser gives every reply the result the ten rules give its
\* keyword, separator and remainder, whatever the letter case of the keyword and
\* the padding around the reply; the listed examples get the listed results;
\* "allow all" in any case gets timer "all", a tool name keeps its case, and
\* a bare deny word never gets a reason.
C26_ApprovalParser ==
    ParsedApproval =>
        LET i == lastOp.arg
            text == ApprovalText(i)
        IN  /\ lastOp.res = ExpectedApproval(i.kw, i.sep, i.rest)
            /\ lastOp.res = parse_approval_text(Strip(text))
            /\ \A ex \in ApprovalExamples : text = ex[1] => lastOp.res = ex[2]
            /\ LowerStr(Strip(text)) = w_allow_all => lastOp.res = Parsed(TRUE, None, w_all)
            /\ LowerStr(Strip(text)) \in DenyWords => lastOp.res.reason = None

\* "Allow Bash" padded with blanks has been parsed: allow, timer "Bash"
C26_Witness ==
    /\ ParsedApproval
    /\ ApprovalText(lastOp.arg) = <<" ", "A">> \o Tail(w_allow) \o <<" ">> \o t_Bash \o <<" ">>
    /\ lastOp.res = Parsed(TRUE, None, t_Bash)

\* "deny: too risky" has been parsed: deny with the reason "too risky"
C26_WitnessReason ==
    /\ ParsedApproval
    /\ ApprovalText(lastOp.arg) = w_deny \o <<":", " ">> \o w_too_risky
    /\ lastOp.res = Parsed(FALSE, w_too_risky, None)

\* the result the choice rule gives a reply for a list of options
ExpectedChoice(kind, options, reply) ==
    IF kind # "choice" \/ MatchIndex(options, Strip(reply)) = 0 THEN None
    ELSE options[MatchIndex(options, Strip(reply))]

ParsedChoice == lastOp.op = "parse_choice_text"

\* C27: for every option list and reply the choice parser returns the option a
\* reply of digits indexes (counting from 1), else the option whose label
\* equals the reply without regard to case, else no match; and no match
\* whenever no Choice request is pending.
C27_ChoiceParser ==
    ParsedChoice =>
        lastOp.res = ExpectedChoice(lastOp.arg.kind, lastOp.arg.options, lastOp.arg.reply)

\* the same for replies that hold no character outside ASCII
C27_AsciiReplies ==
    ParsedChoice /\ (\A k \in 1..Len(lastOp.arg.reply) : lastOp.arg.reply[k] # SuperscriptTwo) =>
        lastOp.res = ExpectedChoice(lastOp.arg.kind, lastOp.arg.options, lastOp.arg.reply)

\* the reply "2" to the options "2", "Yes" has selected "Yes", the second option
C27_Scenario ==
    /\ ParsedChoice
    /\ lastOp.arg = [options |-> <<o_2, o_Yes>>, reply |-> o_2, kind |-> "choice"]
    /\ lastOp.res = o_Yes

-----------------------------------------------------------------------------
(* SpecSequence: permission requests, replies and the notification batcher  *)
(* with its clock, for the tools Bash and Read.                             *)

t_Read == <<"R", "e", "a", "d">>
SequenceTools == {t_Bash, t_Read}
SequenceReplies == {w_allow_all, w_no}

\* time passes while a flush timer sleeps, but not beyond the end of a sleep
TickTimers ==
    /\ DOMAIN batcher.tasks # {}
    /\ \A t \in DOMAIN batcher.tasks : now < batcher.tasks[t]
    /\ now' = now + 1
    /\ UNCHANGED <<approval, issued, lastOp, ops, configVars, bridgeVars>>

NextSequence ==
    \/ \E t \in Threads, x \in SequenceTools : SendApprovalRequest(t, x)
    \/ \E t \in Threads, text \in SequenceReplies : DispatchMessage(t, text)
    \/ \E s \in Slots, outcome \in {"return", "raise"} : Resume(s, outcome)
    \/ \E s \in Slots, outcome \in {"return", "raise"} : ResumeAutoApprove(s, outcome)
    \/ \E t \in Threads : FlushAfterDelay(t)
    \/ TickTimers

\* the event loop runs a task whose sleep has ended, and time passes
SpecSequence ==
    /\ InitBatcher /\ [][NextSequence]_vars
    /\ WF_vars(TickTimers)
    /\ \A t \in Threads : WF_vars(FlushAfterDelay(t))

\* the requests that were put to the human
AskTasks == {s \in Slots : co[s].kind = "send_approval_request" /\ co[s].route = "ask"}

\* the dispatches of "allow all" that found a Permission pending
AllowAllReplies == {s \in PermissionReplies : LowerStr(co[s].text) = w_allow_all}

\* the calls of the flush callback for thread t, in order
FlushesOf(t) ==
    LET at == {i \in 1..Len(batch_log.flushes) : batch_log.flushes[i].thread = t}
        RECURSIVE upto(_)
        upto(n) == IF n = 0 THEN <<>>
                   ELSE IF n \in at THEN Append(upto(n - 1), batch_log.flushes[n].items)
                   ELSE upto(n - 1)
    IN  upto(Len(batch_log.flushes))

\* history: everything ever added to the batch of thread t, flushed or waiting
AddedTo(t) ==
    LET flushed == FlushesOf(t)
        RECURSIVE all(_)
        all(n) == IF n = 0 THEN <<>> ELSE all(n - 1) \o flushed[n]
    IN  all(Len(flushed)) \o ItemsOf(Waiting(t))

ReadItem == <<t_Read, s_Allow_All>>

\* the one auto-approved request of thread t so far is the request for Read
ReadAlone(t) == AddedTo(t) = <<ReadItem>>

\* the flush callback was called once for t, with the Read item, and nothing
\* of t is left to flush
FlushedOnce(t) ==
    /\ FlushesOf(t) = <<(<<ReadItem>>)>>
    /\ t \notin DOMAIN batcher.buffer
    /\ t \notin DOMAIN batcher.tasks

-----------------------------------------------------------------------------
(* C28: a request for Bash that finds no grant becomes the thread's pending *)
(* request and calls no callback; "allow all" answering a pending           *)
(* Permission records the thread's allow-all grant, clears the pending      *)
(* request, calls the approval callback once with approved and timer "all"  *)
(* and then sends the confirmation; a request for Read under that grant is  *)
(* approved with the label "Allow All" without becoming pending, and its    *)
(* item enters the batch when the callback returns; and a batch that holds  *)
(* the Read item alone is flushed once, with that one item.                 *)
C28_EndToEnd ==
    /\ [][\A t \in Threads :
            SendApprovalRequest(t, t_Bash) /\ check(approval, t, t_Bash, now) = None
              => /\ pending' = DictSet(pending, t,
                                      ApprovalRequest("permission", ops + 1, t_Bash,
                                                      <<w_Allow, w_Deny>>))
                 /\ co'[Slot].route = "ask" /\ co'[Slot].calls = <<>>]_vars
    /\ [](\A s \in AskTasks : co[s].calls = <<>>)
    /\ [][\A t \in Threads :
            ResolvesPermission(t, w_allow_all)
              => /\ GrantsOf(approval') =
                      DictSet(GrantsOf(approval), <<"all", t>>, now + Duration)
                 /\ t \notin DOMAIN pending'
                 /\ co'[Slot].calls =
                      <<ApprovalCall(t, pending[t].request_id, TRUE, None, w_all)>>
                 /\ co'[Slot].sent = <<>>]_vars
    /\ [](\A s \in AllowAllReplies :
            /\ co[s].calls = <<ApprovalCall(co[s].thread, co[s].pend.request_id, TRUE,
                                            None, w_all)>>
            /\ co[s].sent \in {<<>>, <<Msg("approved", w_all)>>}
            /\ co[s].st = "cb" => co[s].sent = <<>>
            /\ co[s].st \in {"send", "done"} => co[s].sent = <<Msg("approved", w_all)>>)
    /\ [][\A t \in Threads :
            SendApprovalRequest(t, t_Read) /\ now < DictGet(approval.allow_all_until, t, 0)
              => /\ pending' = pending /\ requests' = requests
                 /\ co'[Slot].route = "auto"
                 /\ co'[Slot].calls =
                      <<ApprovalCall(t, ops + 1, TRUE, None, s_Allow_All)>>
                 /\ batcher' = batcher]_vars
    /\ [][\A s \in Slots :
            ResumeAutoApprove(s, "return") /\ co[s].pend.title = t_Read
              => batcher'.buffer = BufferWith(co[s].thread, <<t_Read, CallLabel(co[s].calls[1])>>)]_vars
    /\ [](\A t \in Threads : ReadAlone(t) => FlushesOf(t) \in {<<>>, <<(<<ReadItem>>)>>})
    /\ \A t \in Threads : ReadAlone(t) ~> (FlushedOnce(t) \/ ~ReadAlone(t))

\* the sequence has run on t1: request 1 was put to the human, "allow all"
\* resolved it, request 3, for Read, was approved by the grant, and the flush
\* callback has been called once, with the Read item
C28_Witness ==
    /\ 1 \in requests.rendered
    /\ "t1" \notin DOMAIN pending
    /\ <<"all", "t1">> \in DOMAIN GrantsOf(approval)
    /\ \E s \in AllowAllReplies :
         co[s].thread = "t1" /\ co[s].pend.request_id = 1 /\ co[s].st = "done"
    /\ \E s \in AutoTasks :
         /\ co[s].thread = "t1" /\ co[s].pend.title = t_Read /\ co[s].pend.request_id = 3
         /\ co[s].st = "done"
    /\ ReadAlone("t1") /\ FlushedOnce("t1")

\* the handlings of an inbound message of thread t that have not finished
Unfinished(t) == {s \in DispatchTasks : co[s].thread = t /\ Running(co[s])}

-----------------------------------------------------------------------------
(* C29: the handling of a message of a thread, which reads the thread's     *)
(* pending request in its first step, starts only when no handling of an    *)
(* earlier message of that thread is suspended in a callback or a send.     *)
C29_ArrivalOrder ==
    [][\A t \in Threads, text \in Texts :
         DispatchMessage(t, text) /\ Strip(text) # <<>> => Unfinished(t) = {}]_vars

\* two handlings of messages of one thread are suspended together
C29_Overlap ==
    \E s1, s2 \in DispatchTasks :
      s1 # s2 /\ co[s1].thread = co[s2].thread /\ Running(co[s1]) /\ Running(co[s2])

-----------------------------------------------------------------------------
(* SpecFrame: the bridge of SpecBridge with the clock running, and among the *)
(* inbound texts replies that match nothing: "3", "hi" and SUPERSCRIPT TWO. *)

x_3 == <<"3">>
x_squared == <<SuperscriptTwo>>
FrameTexts == {x_blank, x_1, x_3, x_foo, w_allow_all, x_hi, x_squared}

NextFrame ==
    \/ \E t \in Threads, x \in Tools : SendApprovalRequest(t, x)
    \/ \E t \in Threads : SendChoiceRequest(t, ChoiceOptions)
    \/ \E t \in Threads, text \in FrameTexts : DispatchMessage(t, text)
    \/ \E t \in Threads : RemoveThread(t)
    \/ \E s \in Slots, outcome \in {"return", "reply", "raise"} : Resume(s, outcome)
    \/ \E s \in Slots, outcome \in {"return", "raise"} : ResumeAutoApprove(s, outcome)
    \/ Tick

SpecFrame == InitBridge /\ [][NextFrame]_vars

PendingOf(t) == DictGet(pending, t, NoRequest)

\* the parser that applies to the pending request of t matches the reply
Matches(t, text) ==
    \/ /\ PendingOf(t).kind = "choice"
       /\ MatchIndex(PendingOf(t).options, Strip(text)) # 0
    \/ /\ PendingOf(t).kind = "permission"
       /\ parse_approval_text(Strip(text)).matched

\* a request for thread t is opened and put to the human
Opens(t) ==
    \/ SendChoiceRequest(t, ChoiceOptions)
    \/ \E x \in Tools : SendApprovalRequest(t, x) /\ check(approval, t, x, now) = None

\* the pending request of a thread changes only by a matching reply in the
\* thread, a request opened for the thread and not auto-approved, or
\* remove_thread; and every other event leaves all pending requests alone
PendingFrame ==
    /\ [][\A t \in Threads :
            PendingOf(t)' # PendingOf(t)
              => \/ \E text \in FrameTexts :
                      DispatchMessage(t, text) /\ Matches(t, text) /\ t \notin DOMAIN pending'
                 \/ Opens(t) /\ PendingOf(t)'.request_id = ops + 1
                 \/ RemoveThread(t) /\ t \notin DOMAIN pending']_vars
    /\ [][\A t \in Threads, text \in FrameTexts :
            DispatchMessage(t, text) /\ ~Matches(t, text) => pending' = pending]_vars
    /\ [][\A t \in Threads, x \in Tools :
            SendApprovalRequest(t, x) /\ check(approval, t, x, now) # None
              => pending' = pending]_vars
    /\ [][Tick => pending' = pending]_vars
    /\ [][(\E s \in Slots, outcome \in {"return", "reply", "raise"} :
             Resume(s, outcome) \/ ResumeAutoApprove(s, outcome)) => pending' = pending]_vars

\* a reply that matches nothing is handed on: as a command when it starts
\* with the prefix, as plain input otherwise
RoutedOn ==
    [][\A t \in Threads, text \in FrameTexts :
         DispatchMessage(t, text) /\ ~Matches(t, text) /\ Strip(text) # <<>>
           => /\ co'[Slot].route =
                   IF StartsWith(Strip(text), command_prefix) THEN "command" ELSE "input"
              /\ co'[Slot].st # "raised"]_vars

\* C30: a thread's pending request is removed only by a matching reply, a
\* newly opened request for the thread that is not auto-approved, or
\* remove_thread; every other event leaves it unchanged; and a reply that
\* matches nothing is routed on as a command or as plain input.
C30_Frame == PendingFrame /\ RoutedOn

\* a reply that matches nothing was handled while a Choice stayed pending
C30_Unmatched ==
    \E s \in DispatchTasks :
      /\ co[s].text = x_3 /\ co[s].pend.kind = "choice" /\ co[s].route = "input"
      /\ PendingOf(co[s].thread) = co[s].pend

-----------------------------------------------------------------------------
(* SpecThreads: the bridge, the engine, the batcher and the debouncer       *)
(* driven together for two threads; time passes while a flush timer sleeps, *)
(* and remove_thread of the bridge is the removal of all three components.  *)

ThreadTexts == {w_allow_all, w_allow_dir, x_1, x_hi}

NextThreads ==
    \/ \E t \in Threads : AssociateDirectory(t, d_rs)
    \/ \E t \in Threads : SetAllowAll(t)
    \/ \E t \in Threads : SetAllowTool(t, t_Bash)
    \/ SetAllowDirectory(d_rs)
    \/ \E t \in Threads : SendApprovalRequest(t, t_Bash)
    \/ \E t \in Threads : SendChoiceRequest(t, ChoiceOptions)
    \/ \E t \in Threads, text \in ThreadTexts : DispatchMessage(t, text)
    \/ \E t \in Threads : RemoveThread(t)
    \/ \E s \in Slots : Resume(s, "return")
    \/ \E s \in Slots : ResumeAutoApprove(s, "return")
    \/ \E t \in Threads : BatcherAdd(t, t_Bash)
    \/ \E t \in Threads : FlushAfterDelay(t)
    \/ \E t \in Threads : ShouldSend(t)
    \/ TickTimers

SpecThreads == InitBatcher /\ [][NextThreads]_vars

\* the entry of key k in dict d: <<value>>, or <<>> when there is none
Entry(d, k) == IF k \in DOMAIN d THEN <<d[k]>> ELSE <<>>

\* everything the bridge and its components keep for thread t
StateOf(t) ==
    [pending |-> Entry(pending, t),
     allow_all |-> Entry(approval.allow_all_until, t),
     allow_tool |-> Entry(approval.allow_tool_until, t),
     directory |-> Entry(approval.thread_directory, t),
     buffer |-> Entry(batcher.buffer, t),
     timer |-> Entry(batcher.tasks, t),
     last_sent |-> Entry(debouncer.last_sent, t)]

\* a step of an operation performed for thread t
OperationFor(t) ==
    \/ AssociateDirectory(t, d_rs) \/ SetAllowAll(t) \/ SetAllowTool(t, t_Bash)
    \/ SendApprovalRequest(t, t_Bash) \/ SendChoiceRequest(t, ChoiceOptions)
    \/ \E text \in ThreadTexts : DispatchMessage(t, text)
    \/ RemoveThread(t)
    \/ \E s \in Slots :
         co[s].thread = t /\ (Resume(s, "return") \/ ResumeAutoApprove(s, "return"))
    \/ BatcherAdd(t, t_Bash) \/ FlushAfterDelay(t) \/ ShouldSend(t)

\* C31: an operation for one thread leaves unchanged everything kept for
\* every other thread (pending request, allow-all and tool grants, directory
\* association, batch buffer and timer, last-sent time), and unless it
\* changes the directory-grant map it leaves the result of check for every
\* other thread and tool unchanged.
C31_NoInterference ==
    [][\A t1 \in Threads :
         OperationFor(t1)
           => \A t2 \in Threads \ {t1} :
                /\ StateOf(t2)' = StateOf(t2)
                /\ approval'.allow_dir_until = approval.allow_dir_until
                     => \A x \in CheckTools :
                          check(approval', t2, x, now') = check(approval, t2, x, now)]_vars

\* "allow all" resolved the request of t1, and wrote its grant, while the
\* request of t2 stayed pending and t2 got no grant
C31_Witness ==
    /\ \E s \in AllowAllReplies : co[s].thread = "t1"
    /\ "t1" \in DOMAIN approval.allow_all_until
    /\ "t2" \in DOMAIN pending /\ "t1" \notin DOMAIN pending
    /\ StateOf("t2").allow_all = <<>>
    /\ check(approval, "t2", t_Bash, now) = None

-----------------------------------------------------------------------------
(* SpecCheck: the engine of SpecEngine with its two queries as steps.  A    *)
(* query records its result in lastOp and leaves the engine as the code     *)
(* leaves it.                                                               *)

\* a check that looks the thread's tool grants up with setdefault
after_check_setdefault(e, thread_id, tool_name, clock) ==
    [e EXCEPT !.allow_tool_until =
        IF thread_id \in DOMAIN @ THEN @ ELSE DictSet(@, thread_id, EmptyDict)]

\* the engine after check: the lookups are dict.get, nothing is written
after_check(e, thread_id, tool_name, clock) == e

EngineCheck(t, x) ==
    /\ lastOp' = Op("check", t, x, check(approval, t, x, now), {})
    /\ approval' = after_check(approval, t, x, now)
    /\ UNCHANGED <<now, issued, ops, configVars, bridgeVars>>

EngineIsNeverApproved(x) ==
    /\ lastOp' = Op("is_never_approved", NoThread, x, is_never_approved(x), {})
    /\ UNCHANGED <<now, approval, issued, ops, configVars, bridgeVars>>

NextCheck ==
    \/ \E t \in Threads : AssociateDirectory(t, d_r_s)
    \/ \E t \in Threads : SetAllowAll(t)
    \/ \E t \in Threads : SetAllowTool(t, t_Bash)
    \/ \E d \in GrantDirs : SetAllowDirectory(d)
    \/ \E t \in Threads : EngineRemoveThread(t)
    \/ \E t \in Threads, x \in Tools : EngineCheck(t, x)
    \/ \E x \in Tools : EngineIsNeverApproved(x)
    \/ Tick

SpecCheck == InitEngine /\ [][NextCheck]_vars

\* the engine e with the grant of scope s written at the clock value
Reissued(e, s, clock) ==
    CASE s[1] = "all" ->
           [e EXCEPT !.allow_all_until = DictSet(@, s[2], clock + Duration)]
      [] s[1] = "tool" ->
           [e EXCEPT !.allow_tool_until =
               DictSet(@, s[2], DictSet(DictGet(@, s[2], EmptyDict), s[3], clock + Duration))]
      [] OTHER -> e

\* C32: check and is_never_approved leave the engine exactly as it was (no
\* entry is created for an unknown thread, no expired grant is deleted);
\* issuing a grant writes now + duration for its scope, whatever expiry the
\* scope had, and touches no other scope; a scope never has two grants; and
\* the expiry of every grant is the time of its latest issue plus the
\* duration.
C32_PureCheck ==
    /\ [][\A t \in Threads, x \in Tools :
            EngineCheck(t, x) \/ EngineIsNeverApproved(x) => approval' = approval]_vars
    /\ [][\A t \in Threads : SetAllowAll(t)
            => approval' = Reissued(approval, <<"all", t>>, now)]_vars
    /\ [][\A t \in Threads : SetAllowTool(t, t_Bash)
            => approval' = Reissued(approval, <<"tool", t, t_Bash>>, now)]_vars
    /\ [][\A d \in GrantDirs : SetAllowDirectory(d)
            => /\ DirKeys(approval') = DirKeys(approval) \cup {normpath(d)}
               /\ DirExpiry(approval', normpath(d)) = now + Duration
               /\ \A k \in DirKeys(approval) \ {normpath(d)} :
                    DirExpiry(approval', k) = DirExpiry(approval, k)
               /\ [approval' EXCEPT !.allow_dir_until = <<>>]
                    = [approval EXCEPT !.allow_dir_until = <<>>]]_vars
    /\ [](/\ Cardinality(DirKeys(approval)) = Len(approval.allow_dir_until)
          /\ DOMAIN issued = Scopes(approval)
          /\ \A s \in Scopes(approval) :
               /\ ScopeExpiry(approval, s) = issued[s] + Duration
               /\ ScopeExpiry(approval, s) <= now + Duration)

\* check was asked about a thread whose allow-all grant has run out: the
\* answer is none and the grant is still stored
C32_Witness ==
    /\ lastOp.op = "check" /\ lastOp.thread = "t1" /\ lastOp.arg = t_Bash
    /\ lastOp.res = None
    /\ "t1" \in DOMAIN approval.allow_all_until
    /\ approval.allow_all_until["t1"] <= now

\* check was asked about a thread the engine knows nothing of
C32_WitnessUnknown ==
    /\ lastOp.op = "check" /\ lastOp.thread = "t2"
    /\ Scopes(approval) = {<<"all", "t1">>}
    /\ "t2" \notin DOMAIN approval.allow_tool_until
    /\ "t2" \notin DOMAIN approval.thread_directory

-----------------------------------------------------------------------------
(* SpecFlush: the batcher of SpecBatcher with a flush callback that may     *)
(* suspend: _flush_after_delay stays in its await of the callback while     *)
(* adds, removals and further flushes go on.                                *)

FlushCall(thread_id, items) ==
    [cb |-> "flush_callback", thread |-> thread_id, request_id |-> 0, approved |-> FALSE,
     reason |-> None, timer |-> None, text |-> <<>>, args |-> items]

\* NotificationBatcher._flush_after_delay when its sleep has ended, suspended
\* in the flush callback
FlushSuspending(t) ==
    /\ t \in DOMAIN batcher.tasks
    /\ batcher.tasks[t] <= now
    /\ FreeSlots # {}
    /\ LET r == flush_after_delay(batcher, t)
       IN  /\ r.items # <<>>
           /\ batcher' = r.batcher
           /\ batch_log' = LogFlush(batch_log, t, r.items, now)
           /\ co' = [co EXCEPT ![Slot] =
                       Call(NewTask("flush_after_delay", t, <<>>, <<>>, NoRequest, "-"),
                            FlushCall(t, r.items), "end")]
    /\ UNCHANGED <<now, approval, issued, lastOp, ops, configVars, pending, debouncer, sent_log,
                   thread_state, pending_deny_reason, typing_tasks, requests>>

NextFlush ==
    \/ \E t \in Threads, x \in Tools : BatcherAdd(t, x)
    \/ \E t \in Threads : FlushAfterDelay(t)
    \/ \E t \in Threads : FlushSuspending(t)
    \/ \E s \in Slots, outcome \in {"return", "raise"} : Resume(s, outcome)
    \/ \E t \in Threads : BatcherRemoveThread(t)
    \/ TickBatcher

\* the event loop runs a task whose sleep has ended, and time passes
SpecFlush ==
    /\ InitBatcher /\ [][NextFlush]_vars
    /\ WF_vars(TickBatcher)
    /\ \A t \in Threads : WF_vars(FlushAfterDelay(t) \/ FlushSuspending(t))

\* a flush of thread t: the callback is called, and returns at once or suspends
Flushes(t) == FlushAfterDelay(t) \/ FlushSuspending(t)

\* the flush callbacks of thread t that have not returned
SuspendedFlushes(t) ==
    {s \in Slots : co[s].kind = "flush_after_delay" /\ co[s].thread = t /\ co[s].st = "cb"}

\* the number of items of thread t handed to the flush callback so far
RECURSIVE FlushedCount(_, _)
FlushedCount(t, n) ==
    IF n = 0 THEN 0
    ELSE FlushedCount(t, n - 1)
           + (IF batch_log.flushes[n].thread = t THEN Len(batch_log.flushes[n].items) ELSE 0)

\* the number of items of thread t that remove_thread discarded
RECURSIVE DroppedCount(_, _)
DroppedCount(t, n) ==
    IF n = 0 THEN 0
    ELSE DroppedCount(t, n - 1)
           + (IF batch_log.dropped[n].thread = t THEN Len(batch_log.dropped[n].adds) ELSE 0)

\* the items of t delivered, discarded or waiting
Accounted(t) ==
    FlushedCount(t, Len(batch_log.flushes)) + DroppedCount(t, Len(batch_log.dropped))
      + Len(Waiting(t))

-----------------------------------------------------------------------------
(* C33: every item added for a thread waits in the thread's buffer, in the  *)
(* order added, until one flush of the thread hands the whole buffer to the *)
(* flush callback or remove_thread discards it; an add is one more item     *)
(* accounted for and nothing else changes that number, so no item is lost   *)
(* or delivered twice, also when the add comes while an earlier flush       *)
(* callback of the thread is suspended; and every waiting item is           *)
(* eventually flushed or discarded, after which nothing is left buffered.   *)
C33_ExactlyOnce ==
    /\ [](\A t \in Threads : DictGet(batcher.buffer, t, <<>>) = ItemsOf(Waiting(t)))
    /\ [][\A t \in Threads, x \in Tools :
            BatcherAdd(t, x)
              => /\ Waiting(t)' = Append(Waiting(t), [item |-> <<x, s_Allow_All>>, at |-> now])
                 /\ batch_log'.flushes = batch_log.flushes
                 /\ batch_log'.dropped = batch_log.dropped]_vars
    /\ [][\A t \in Threads :
            Flushes(t)
              => /\ Waiting(t) # <<>> /\ Waiting(t)' = <<>>
                 /\ batch_log'.flushes =
                      Append(batch_log.flushes,
                             [thread |-> t, items |-> ItemsOf(Waiting(t)), at |-> now])
                 /\ batch_log'.dropped = batch_log.dropped]_vars
    /\ [][\A t \in Threads :
            BatcherRemoveThread(t)
              => /\ Waiting(t)' = <<>>
                 /\ batch_log'.flushes = batch_log.flushes
                 /\ Accounted(t)' = Accounted(t)]_vars
    /\ [][\A t \in Threads :
            Accounted(t)' = Accounted(t) + (IF \E x \in Tools : BatcherAdd(t, x) THEN 1 ELSE 0)]_vars
    /\ [][batch_log'.flushes # batch_log.flushes => \E t \in Threads : Flushes(t)]_vars
    /\ \A t \in Threads : (Waiting(t) # <<>>) ~> (Waiting(t) = <<>>)
    /\ <>[](batcher.buffer = EmptyDict)

\* an item was added for t1 while the callback of an earlier flush of t1 was
\* suspended, and a second flush has delivered it, alone
C33_Witness ==
    /\ SuspendedFlushes("t1") # {}
    /\ \E i, j \in 1..Len(batch_log.flushes) :
         /\ i < j
         /\ batch_log.flushes[i].thread = "t1" /\ batch_log.flushes[j].thread = "t1"
         /\ batch_log.flushes[i].items = <<<<t_Bash, s_Allow_All>>>>
         /\ batch_log.flushes[j].items = <<<<t_Task, s_Allow_All>>>>
         /\ \E s \in SuspendedFlushes("t1") : co[s].calls[1].args = batch_log.flushes[i].items
    /\ Waiting("t1") = <<>>

-----------------------------------------------------------------------------
(* C34: _tasks holds a flush timer for a thread exactly when the thread's   *)
(* buffer holds items, the buffer of a thread is never an empty list, and   *)
(* the timer of a thread is the one its latest add started.                 *)
C34_TimerIffBuffer ==
    \A t \in Threads :
      /\ t \in DOMAIN batcher.tasks <=> t \in DOMAIN batcher.buffer
      /\ t \in DOMAIN batcher.buffer => batcher.buffer[t] # <<>>
      /\ t \in DOMAIN batcher.tasks
           => batcher.tasks[t] = Waiting(t)[Len(Waiting(t))].at + FlushDelay

\* t1 has two items waiting and one timer, started by the later add; t2 has
\* neither after its flush
C34_Witness ==
    /\ Len(DictGet(batcher.buffer, "t1", <<>>)) = 2
    /\ Waiting("t1")[1].at < Waiting("t1")[2].at
    /\ batcher.tasks["t1"] = Waiting("t1")[2].at + FlushDelay
    /\ "t2" \notin DOMAIN batcher.tasks /\ "t2" \notin DOMAIN batcher.buffer
    /\ \E i \in 1..Len(batch_log.flushes) : batch_log.flushes[i].thread = "t2"

-----------------------------------------------------------------------------
(* SpecAllocate: allocate_name as a function of the base name, the          *)
(* configured maximum length and the names in use.  Init draws the maximum  *)
(* and the names in use; register leaves every name it was given in         *)
(* _used_names until a thread holding it is unregistered, so each drawn set *)
(* is one that repeated register calls for one thread id produce.           *)

n_ab == <<"a", "b">>
n_a == <<"a">>
n_a_sp == <<"a", " ">>
n_a_2 == <<"a", " ", "2">>

NameLens == 1..MaxNameLen
AllocBases == {n_repo, n_reports, x_blank, n_ab}
UsedPool == {n_ab, n_a, n_a_sp, n_a_2, n_repo, w_Thread}

\* the base of allocate_name and all its candidates
Exhausted(base, max_len) ==
    {Prefix(base, max_len)} \cup {Candidate(Prefix(base, max_len), i, max_len) : i \in 2..99}

InitAllocate ==
    /\ now = 0
    /\ approval = NewEngine
    /\ issued = EmptyDict
    /\ lastOp = Op("init", NoThread, <<>>, None, {})
    /\ ops = 0
    /\ handlers = HandlersWith(TRUE)
    /\ command_prefix = <<"!">>
    /\ subscriber = NewSubscriber
    /\ event_log = <<>>
    /\ pending = EmptyDict
    /\ batcher = NewBatcher
    /\ debouncer = NewDebouncer
    /\ \E max_len \in NameLens :
         \E used \in SUBSET UsedPool \cup {Exhausted(b, max_len) : b \in {n_repo, n_ab}} :
           thread_state = [NewThreadState EXCEPT !.max_len = max_len, !.used_names = used]
    /\ pending_deny_reason = EmptyDict
    /\ typing_tasks = {}
    /\ requests = NoRequests
    /\ batch_log = NoBatchLog
    /\ sent_log = EmptyDict
    /\ co = [s \in Slots |-> IdleTask]

NextAllocate == \E base \in AllocBases : RegistryAllocate(base)

SpecAllocate == InitAllocate /\ [][NextAllocate]_vars

\* the base name, "Thread" when blank, cut to the maximum
TruncatedBase(base_name, max_len) ==
    Prefix(IF Strip(base_name) = <<>> THEN w_Thread ELSE Strip(base_name), max_len)

\* the base portion cut so that the name with the suffix " k" fits
Fitted(base, k, max_len) ==
    LET suffix == <<" ">> \o StrOf(k)
        room == max_len - Len(suffix)
    IN  (IF room <= 0 THEN <<>> ELSE Prefix(base, room)) \o suffix

\* the numbers whose fitted name is not in use
FreeNumbers(ts, base) == {k \in 2..99 : Fitted(base, k, ts.max_len) \notin ts.used_names}

-----------------------------------------------------------------------------
(* C35: for every base name and maximum length allocate_name returns a      *)
(* non-empty name no longer than the maximum: the truncated base when that  *)
(* is not in use, otherwise the base portion, cut so that the name fits,    *)
(* with the suffix of the lowest number from 2 to 99 whose name is not in   *)
(* use; it returns a name in use only when the truncated base and all 98    *)
(* suffixed names are in use, and then it returns the truncated base.       *)
C35_Allocate ==
    [][\A base_name \in AllocBases :
         RegistryAllocate(base_name) =>
           LET ts == thread_state
               res == lastOp'.res
               base == TruncatedBase(base_name, ts.max_len)
               free == FreeNumbers(ts, base)
           IN  /\ res # <<>> /\ Len(res) <= ts.max_len
               /\ base \notin ts.used_names => res = base
               /\ base \in ts.used_names /\ free # {}
                    => res = Fitted(base, CHOOSE k \in free : \A j \in free : k <= j, ts.max_len)
               /\ res \in ts.used_names
                    => base \in ts.used_names /\ free = {} /\ res = base]_vars

\* the same from a maximum of four characters on, where every suffix leaves
\* room for one character of the base
C35_FromFour ==
    [][\A base_name \in AllocBases :
         RegistryAllocate(base_name) /\ thread_state.max_len >= 4 =>
           LET ts == thread_state
               res == lastOp'.res
               base == TruncatedBase(base_name, ts.max_len)
               free == FreeNumbers(ts, base)
           IN  /\ res # <<>> /\ Len(res) <= ts.max_len
               /\ base \notin ts.used_names => res = base
               /\ base \in ts.used_names /\ free # {}
                    => res = Fitted(base, CHOOSE k \in free : \A j \in free : k <= j, ts.max_len)
               /\ res \in ts.used_names
                    => base \in ts.used_names /\ free = {} /\ res = base]_vars

\* with a maximum of two characters and "ab" and "a " in use, allocate_name
\* answers "ab"
C35_ShortMaximum ==
    /\ thread_state.max_len = 2
    /\ thread_state.used_names = {n_ab, n_a_sp}
    /\ lastOp = Op("allocate_name", NoThread, n_ab, n_ab, {})

\* every candidate of "Repo" is in use and allocate_name answers "Repo"
C35_Exhaustion ==
    /\ thread_state.max_len = MaxNameLen
    /\ thread_state.used_names = Exhausted(n_repo, MaxNameLen)
    /\ lastOp = Op("allocate_name", NoThread, n_repo, n_repo, {})

-----------------------------------------------------------------------------
(* SpecRename: the registry of SpecRegistry, where register is also called  *)
(* for a thread id that is registered already.                              *)

\* ThreadState.register for a registered thread id, with another name
RegistryReregister(t, name) ==
    /\ t \in DOMAIN thread_state.names
    /\ thread_state.names[t] # name
    /\ thread_state' = register(thread_state, t, name)
    /\ lastOp' = Op("register", t, name, None, {})
    /\ UNCHANGED <<now, approval, issued, ops, configVars, pending, batcher, batch_log,
                   debouncer, sent_log, pending_deny_reason, typing_tasks, requests, co>>

NextRename ==
    \/ \E base \in BaseNames : RegistryAllocate(base)
    \/ \E t \in Threads, name \in Names : RegistryRegister(t, name)
    \/ \E t \in Threads, name \in Names : RegistryReregister(t, name)
    \/ \E t \in Threads : RegistryUnregister(t)
    \/ RegistryRestart

SpecRename == InitBatcher /\ [][NextRename]_vars

\* the numbers whose candidate no registered thread holds
UnheldNumbers(base) == {k \in 2..99 : Candidate(base, k, thread_state.max_len) \notin Held}

-----------------------------------------------------------------------------
(* C36: after any sequence of load, register and unregister calls,          *)
(* allocate_name returns a name that no registered thread holds, and it is  *)
(* the first such name: the truncated base when no thread holds it, else    *)
(* the candidate of the lowest number that no thread holds.                 *)
C36_InUseIffHeld ==
    [][\A base_name \in BaseNames :
         RegistryAllocate(base_name) =>
           LET base == TruncatedBase(base_name, thread_state.max_len)
               res == lastOp'.res
           IN  /\ res \notin Held
               /\ base \notin Held => res = base
               /\ base \in Held
                    => res = Candidate(base, CHOOSE k \in UnheldNumbers(base) :
                                               \A j \in UnheldNumbers(base) : k <= j,
                                       thread_state.max_len)]_vars

\* t1 was registered as "Repo" and then as "Repo 2"; no thread holds "Repo",
\* and allocate_name("Repo") answers "Repo 3"
C36_SkipsFreeName ==
    /\ thread_state.names = DictSet(EmptyDict, "t1", n_repo_2)
    /\ n_repo \in thread_state.used_names
    /\ lastOp = Op("allocate_name", NoThread, n_repo, <<"R", "e", "p", "o", " ", "3">>, {})

\* t1 and t2 were registered as "Repo" and t2 unregistered; t1 holds "Repo",
\* and allocate_name("Repo") answers "Repo"
C36_ReturnsHeldName ==
    /\ thread_state.names = DictSet(EmptyDict, "t1", n_repo)
    /\ lastOp = Op("allocate_name", NoThread, n_repo, n_repo, {})

-----------------------------------------------------------------------------
(* SpecGrants: requests are opened and text messages of every kind arrive:  *)
(* allow replies with and without a timer, denials with and without a       *)
(* reason, a choice selection, a command, plain input and a blank message.  *)

GrantTexts == {w_allow_all, w_allow, x_deny_why, w_stop, x_1, x_help, x_hi, x_blank}

NextGrants ==
    \/ \E t \in Threads, x \in Tools : SendApprovalRequest(t, x)
    \/ \E t \in Threads : SendChoiceRequest(t, ChoiceOptions)
    \/ \E t \in Threads, text \in GrantTexts : DispatchMessage(t, text)
    \/ \E s \in Slots, outcome \in {"return", "raise"} : Resume(s, outcome)
    \/ \E s \in Slots, outcome \in {"return", "raise"} : ResumeAutoApprove(s, outcome)

SpecGrants == InitBridge /\ [][NextGrants]_vars

\* an allow reply with a timer resolves the pending Permission of its thread
TimedAllow ==
    \E t \in Threads, text \in GrantTexts :
      /\ ResolvesPermission(t, text)
      /\ parse_approval_text(Strip(text)).allow
      /\ parse_approval_text(Strip(text)).timer # None

-----------------------------------------------------------------------------
(* C37: in the text path the engine changes only in a step where an allow   *)
(* reply with a timer resolves a pending Permission; denials, allow replies *)
(* without a timer, choice selections, commands, plain input, blank         *)
(* messages, the opening of requests and the resumptions of suspended       *)
(* coroutines leave every grant and the whole engine as they were.          *)
C37_GrantFrame ==
    /\ [][approval' # approval => TimedAllow]_vars
    /\ [][\A t \in Threads, text \in GrantTexts \ {w_allow_all} :
            DispatchMessage(t, text) => GrantsOf(approval') = GrantsOf(approval)]_vars
    /\ [][\A t \in Threads :
            \/ SendChoiceRequest(t, ChoiceOptions)
            \/ \E x \in Tools : SendApprovalRequest(t, x)
            => GrantsOf(approval') = GrantsOf(approval)]_vars

\* "allow" resolved the pending Permission of a thread and no grant exists
C37_Witness ==
    /\ GrantsOf(approval) = EmptyDict
    /\ \E s \in DispatchTasks :
         /\ co[s].text = w_allow
         /\ co[s].pend.kind = "permission"
         /\ co[s].route = "permission"
         /\ co[s].thread \notin DOMAIN pending

\* "stop" denied the pending Permission of a thread and no grant exists
C37_WitnessDenial ==
    /\ GrantsOf(approval) = EmptyDict
    /\ \E s \in DispatchTasks :
         /\ co[s].text = w_stop
         /\ co[s].pend.kind = "permission"
         /\ co[s].route = "permission"
         /\ co[s].calls # <<>> /\ ~co[s].calls[1].approved

-----------------------------------------------------------------------------
(* Vocabulary of C38: the calls of the approval callback made for replies   *)

\* this step starts the dispatch of a reply that calls the approval callback
\* with request id r
Resolves(r) ==
    \E t \in Threads, text \in Texts :
      /\ DispatchMessage(t, text)
      /\ \E i \in 1..Len(co'[Slot].calls) :
           /\ co'[Slot].calls[i].cb = "on_approval_response"
           /\ co'[Slot].calls[i].request_id = r

\* request id r is the pending request of some thread
IsPending(r) == \E t \in DOMAIN pending : pending[t].request_id = r

-----------------------------------------------------------------------------
(* C38: the approval callback is called with the request id of a pending    *)
(* request at most once through text replies: the step that starts the     *)
(* dispatch of a reply makes at most one such call, for the request that is *)
(* pending in the thread, and leaves that request cleared; a request once   *)
(* cleared is never pending again; and the resumption of a suspended        *)
(* dispatch makes no further call, however the dispatches of the thread     *)
(* overlap.                                                                 *)
C38_ResolvedOnce ==
    /\ [][\A r \in 1..MaxCalls :
            Resolves(r) => /\ IsPending(r) /\ ~IsPending(r)'
                           /\ Cardinality(ApprovalCalls(co'[Slot])) = 1]_vars
    /\ [][\A r \in 1..MaxCalls : r <= ops /\ ~IsPending(r) => ~IsPending(r)']_vars
    /\ [][\A s \in Slots, outcome \in {"return", "reply", "raise"} :
            Resume(s, outcome) => ApprovalCalls(co'[s]) = ApprovalCalls(co[s])]_vars
    /\ [](\A t1, t2 \in DOMAIN pending : t1 # t2 => pending[t1].request_id # pending[t2].request_id)

\* "allow all" arrived twice in t1: the first reply resolved the pending
\* Permission and is suspended in the callback, the second found nothing
\* pending and went on as plain input
C38_Witness ==
    \E s1, s2 \in DispatchTasks :
      /\ s1 # s2
      /\ co[s1].thread = "t1" /\ co[s2].thread = "t1"
      /\ co[s1].text = w_allow_all /\ co[s2].text = w_allow_all
      /\ co[s1].st = "cb" /\ ApprovalCalls(co[s1]) = {1}
      /\ co[s2].route = "input" /\ ApprovalCalls(co[s2]) = {}
      /\ Running(co[s2])

-----------------------------------------------------------------------------
(* C39: in the Telegram adapter a button click, or the message that follows *)
(* a "deny with reason" click, that carries a request id other than the id  *)
(* of the thread's pending request (or arrives when nothing is pending)     *)
(* leaves the pending requests and the engine as they were and calls no     *)
(* approval callback.                                                       *)
C39_OnlyItsRequest ==
    /\ [][\A s \in Slots :
            /\ ResumeCallbackQuery(s, "return")
            /\ PendingOf(co[s].thread).request_id # co[s].pend.request_id
            => /\ pending' = pending
               /\ approval' = approval
               /\ ApprovalCalls(co'[s]) = {}]_vars
    /\ [][\A t \in Topics, text \in Messages :
            /\ HandleMessage(t, text)
            /\ topic_id(t) \in DOMAIN pending_deny_reason
            /\ LET entry == pending_deny_reason[topic_id(t)]
               IN  PendingOf(entry.thread_id).request_id # entry.request_id
            => /\ pending' = pending
               /\ ApprovalCalls(co'[Slot]) = {}]_vars

\* the Deny button of request 1 was clicked twice and the approval callback
\* was called with request id 1 by both clicks
C39_ClickedTwice ==
    \E s1, s2 \in Slots :
      /\ s1 # s2
      /\ co[s1].kind = "handle_callback_query" /\ co[s2].kind = "handle_callback_query"
      /\ \A s \in {s1, s2} :
           /\ co[s].text = w_Deny
           /\ ApprovalCalls(co[s]) = {1}
           /\ co[s].calls[1].request_id = 1

\* request 2 replaced request 1 in t1; a click on the Allow All button of
\* request 1 cleared request 2, wrote the grant and called the callback with
\* request id 1
C39_StaleClick ==
    \E s \in Slots :
      /\ co[s].kind = "handle_callback_query"
      /\ co[s].text = o_AllowAll
      /\ ApprovalCalls(co[s]) = {1}
      /\ co[s].calls[1].request_id = 1
      /\ requests.rendered = {1, 2}
      /\ pending = EmptyDict
      /\ <<"all", "t1">> \in DOMAIN GrantsOf(approval)

-----------------------------------------------------------------------------
(* SpecSubscriber: threads are subscribed and unsubscribed, the event       *)
(* source puts events on the queues, and the consumer task of each thread   *)
(* takes them off and calls the bridge.                                     *)

\* the events of the model: {"type": ..., "data": {...}}; n numbers the events
\* in the order the source put them
Event(type, final, text, is_history, state) ==
    [type |-> type, final |-> final, text |-> text, is_history |-> is_history, state |-> state]

EventKinds ==
    {Event("output", TRUE, x_hi, FALSE, <<>>),
     Event("output", FALSE, x_hi, FALSE, <<>>),
     Event("output", TRUE, <<>>, FALSE, <<>>),
     Event("output", TRUE, x_hi, TRUE, <<>>),
     Event("state", FALSE, <<>>, FALSE, w_running)}

w_RUNNING == <<"R", "U", "N", "N", "I", "N", "G">>

\* a dispatch that forwards every output with text, final or not
dispatch_forwards_partial(ev) ==
    IF ev.type = "output" THEN IF ev.text # <<>> THEN "send_output" ELSE "none"
    ELSE IF ev.type = "state" /\ UpperStr(ev.state) = w_RUNNING THEN "send_typing"
    ELSE IF ev.type = "error" THEN "send_status"
    ELSE "none"

\* EventSubscriber._dispatch: the bridge method it awaits for the event, "none"
\* when it returns without a call
dispatch(ev) ==
    IF ev.type = "output"
      THEN IF ev.final /\ ev.text # <<>> THEN "send_output" ELSE "none"
    ELSE IF ev.type = "state" /\ UpperStr(ev.state) = w_RUNNING THEN "send_typing"
    ELSE IF ev.type = "error" THEN "send_status"
    ELSE "none"

WaitingTask == [st |-> "get", n |-> 0]

\* EventSubscriber.subscribe
subscribe(sub, thread_id) ==
    IF thread_id \in DOMAIN sub.tasks THEN sub
    ELSE [tasks |-> DictSet(sub.tasks, thread_id, WaitingTask),
          queues |-> DictSet(sub.queues, thread_id, <<>>)]

\* EventSubscriber.unsubscribe: the task is popped and cancelled
unsubscribe(sub, thread_id) ==
    [tasks |-> DictPop(sub.tasks, thread_id), queues |-> DictPop(sub.queues, thread_id)]

\* the entries of the log whose call was interrupted by the cancellation of
\* the consumers of the threads ts
Cancelled(log, ts) ==
    [i \in 1..Len(log) |->
       IF log[i].thread \in ts /\ log[i].outcome = "pending"
         THEN [log[i] EXCEPT !.outcome = "cancelled"] ELSE log[i]]

Subscribe(t) ==
    /\ subscriber' = subscribe(subscriber, t)
    /\ UNCHANGED <<now, approval, issued, lastOp, ops, handlers, command_prefix, event_log, bridgeVars>>

Unsubscribe(t) ==
    /\ subscriber' = unsubscribe(subscriber, t)
    /\ event_log' = Cancelled(event_log, {t})
    /\ UNCHANGED <<now, approval, issued, lastOp, ops, handlers, command_prefix, bridgeVars>>

\* EventSubscriber.unsubscribe_all: unsubscribe never suspends
UnsubscribeAll ==
    /\ subscriber' = NewSubscriber
    /\ event_log' = Cancelled(event_log, DOMAIN subscriber.tasks)
    /\ UNCHANGED <<now, approval, issued, lastOp, ops, handlers, command_prefix, bridgeVars>>

\* the event source puts an event on the queue subscribe returned
Put(t, kind) ==
    /\ ops < MaxOps
    /\ t \in DOMAIN subscriber.queues
    /\ subscriber' = [subscriber EXCEPT !.queues[t] = Append(@, [ev |-> kind, n |-> ops + 1])]
    /\ ops' = ops + 1
    /\ UNCHANGED <<now, approval, issued, lastOp, handlers, command_prefix, event_log, bridgeVars>>

\* EventSubscriber._consume: queue.get() returns the oldest event; history
\* replays are skipped, the others dispatched, up to the await of the bridge
Consume(t) ==
    /\ t \in DOMAIN subscriber.tasks
    /\ subscriber.tasks[t].st = "get"
    /\ subscriber.queues[t] # <<>>
    /\ LET item == Head(subscriber.queues[t])
           call == IF item.ev.is_history THEN "none" ELSE dispatch(item.ev)
       IN  /\ subscriber' =
                [subscriber EXCEPT !.queues[t] = Tail(@),
                                   !.tasks[t] = IF call = "none" THEN WaitingTask
                                                ELSE [st |-> "dispatch", n |-> item.n]]
           /\ event_log' =
                IF call = "none" THEN event_log
                ELSE Append(event_log, [thread |-> t, n |-> item.n, ev |-> item.ev,
                                        call |-> call, outcome |-> "pending"])
    /\ UNCHANGED <<now, approval, issued, lastOp, ops, handlers, command_prefix, bridgeVars>>

\* the call of the bridge returns or raises; _consume logs the exception and
\* goes back to queue.get()
FinishDispatch(t, outcome) ==
    /\ t \in DOMAIN subscriber.tasks
    /\ subscriber.tasks[t].st = "dispatch"
    /\ subscriber' = [subscriber EXCEPT !.tasks[t] = WaitingTask]
    /\ event_log' = [i \in 1..Len(event_log) |->
                       IF event_log[i].n = subscriber.tasks[t].n
                         THEN [event_log[i] EXCEPT !.outcome = outcome] ELSE event_log[i]]
    /\ UNCHANGED <<now, approval, issued, lastOp, ops, handlers, command_prefix, bridgeVars>>

NextSubscriber ==
    \/ \E t \in Threads : Subscribe(t)
    \/ \E t \in Threads : Unsubscribe(t)
    \/ UnsubscribeAll
    \/ \E t \in Threads, kind \in EventKinds : Put(t, kind)
    \/ \E t \in Threads : Consume(t)
    \/ \E t \in Threads, outcome \in {"return", "raise"} : FinishDispatch(t, outcome)

\* the event loop runs a consumer whose queue holds an event, and the calls
\* of the bridge come back
SpecSubscriber ==
    /\ InitBatcher /\ [][NextSubscriber]_vars
    /\ \A t \in Threads : WF_vars(Consume(t))
    /\ \A t \in Threads : WF_vars(FinishDispatch(t, "return") \/ FinishDispatch(t, "raise"))

\* the bridge calls made for thread t, in order
EventCalls(t) == SelectSeq(event_log, LAMBDA c : c.thread = t)

\* the call of the log made for event number n
IsPendingCall(c) ==
    /\ c.thread \in DOMAIN subscriber.tasks
    /\ subscriber.tasks[c.thread].st = "dispatch"
    /\ subscriber.tasks[c.thread].n = c.n

-----------------------------------------------------------------------------
(* C40: every subscribed thread has one queue and one consumer task, and    *)
(* subscribing it again changes nothing; the consumer has at most one       *)
(* bridge call in flight and makes its calls in the order of the queue; no  *)
(* history event is dispatched, and send_output is called exactly for the   *)
(* output events that are final with text; a call that raises leaves the    *)
(* consumer waiting for the next event with the queue as it was;            *)
(* unsubscribe and unsubscribe_all leave no consumer for the thread(s), and *)
(* a call is made only for a subscribed thread; and a queued event is       *)
(* eventually taken off the queue unless the thread is unsubscribed.        *)
C40_Subscriber ==
    /\ [](/\ DOMAIN subscriber.tasks = DOMAIN subscriber.queues
          /\ \A t \in DOMAIN subscriber.tasks : subscribe(subscriber, t) = subscriber)
    /\ [](\A i \in 1..Len(event_log) :
            LET c == event_log[i] IN
            /\ ~c.ev.is_history
            /\ c.call = "send_output" <=> c.ev.type = "output"
            /\ c.ev.type = "output" => c.ev.final /\ c.ev.text # <<>>
            /\ c.outcome = "pending" <=> IsPendingCall(c)
            /\ \A j \in 1..Len(event_log) :
                 i < j /\ event_log[j].thread = c.thread => c.n < event_log[j].n
            /\ c.thread \in DOMAIN subscriber.queues
                 => \A k \in 1..Len(subscriber.queues[c.thread]) :
                      c.n < subscriber.queues[c.thread][k].n)
    /\ [][\A t \in Threads :
            Consume(t) =>
              LET item == Head(subscriber.queues[t]) IN
              /\ subscriber'.queues[t] = Tail(subscriber.queues[t])
              /\ (~item.ev.is_history /\ item.ev.type = "output" /\ item.ev.final
                    /\ item.ev.text # <<>>)
                   => event_log' = Append(event_log,
                                          [thread |-> t, n |-> item.n, ev |-> item.ev,
                                           call |-> "send_output", outcome |-> "pending"])]_vars
    /\ [][\A t \in Threads :
            FinishDispatch(t, "raise")
              => /\ subscriber'.tasks = [subscriber.tasks EXCEPT ![t] = WaitingTask]
                 /\ subscriber'.queues = subscriber.queues]_vars
    /\ [][\A t \in Threads : Unsubscribe(t) => t \notin DOMAIN subscriber'.tasks]_vars
    /\ [][UnsubscribeAll => subscriber'.tasks = EmptyDict]_vars
    /\ [][Len(event_log') > Len(event_log)
            => \E t \in DOMAIN subscriber.tasks :
                 /\ Consume(t)
                 /\ subscriber.tasks[t].st = "get"
                 /\ event_log'[Len(event_log')].thread = t]_vars
    /\ \A t \in Threads :
         (t \in DOMAIN subscriber.queues /\ subscriber.queues[t] # <<>>)
           ~> (t \notin DOMAIN subscriber.queues \/ subscriber.queues[t] = <<>>)

\* the call for the first event of t1 raised, the second event was a history
\* replay and was skipped, and the third was dispatched and returned
C40_Witness ==
    /\ Len(event_log) = 2
    /\ event_log[1].thread = "t1" /\ event_log[2].thread = "t1"
    /\ event_log[1].n = 1 /\ event_log[1].outcome = "raise"
    /\ event_log[2].n = 3 /\ event_log[2].outcome = "return"
    /\ "t1" \in DOMAIN subscriber.tasks /\ subscriber.queues["t1"] = <<>>

\* t1 was unsubscribed while a call for it was in flight and events were
\* queued behind it
C40_WitnessCancelled ==
    /\ "t1" \notin DOMAIN subscriber.tasks
    /\ Len(event_log) = 1 /\ event_log[1].outcome = "cancelled"
    /\ ops = MaxOps

====
